---- MODULE Spec2Model ----
(***************************************************************************)
(* Model of the AutoMock TTL cleanup Lambda                                *)
(* (terraform/modules/automock-ecs/scripts/ttl_cleanup.py), of the config  *)
(* reload Lambda (terraform/modules/automock-s3/scripts/config_reload.py)  *)
(* and of the user start-up of the load test                               *)
(* (internal/client/templates/locustfile.py).                              *)
(*                                                                         *)
(* One invocation of handler() is a process with a program counter; every  *)
(* platform (boto3) call is one step.  A platform call can raise: a        *)
(* generic platform error at any call, and the platform's not-found error  *)
(* when its target is absent.  The environment variables are fixed at      *)
(* deployment (Init) and shared by every invocation.                       *)
(***************************************************************************)
EXTENDS Integers, Sequences, FiniteSets, TLC

\* ------------------------------------------------------------------ bounds
MaxNow == 3        \* instants (hours) the clock can show: 0..MaxNow
MaxRuns == 2       \* invocations of the handler in one behaviour
MaxObjs == 2       \* objects in the configuration bucket: 0..MaxObjs
PageSize == 1      \* keys one list_objects_v2 response carries

\* Invocation slots: the scheduled trigger runs its invocations in slot 1.
Inv == {1, 2}
Times == 0..MaxNow

\* service.get('createdAt') found nothing
NoTime == -1

\* --------------------------------------------------------------- variables
VARIABLES
  env,        \* os.environ and the templated sns_topic_arn, fixed at deployment
  aws,        \* the platform: which resources exist, and their attributes
  clock,      \* the platform's UTC clock, in hours
  schedule,   \* the payloads of the invocations the trigger has yet to make
  prevClean,  \* the invocation before the running one deleted everything
  inv,        \* inv[i]: the local state of invocation i
  reload,     \* the config reload Lambda: its settings, event and progress
  locust      \* the load test: its module globals and its users

vars == <<env, aws, clock, schedule, prevClean, inv, reload, locust>>

\* The keys of the results dict, in the order perform_cleanup() lists them.
ResultKeys ==
  {"ecs_service", "ecs_cluster", "load_balancer", "target_groups",
   "s3_bucket", "vpc_resources", "route53_records", "ssl_certificate"}

\* results = { ...: False } at the top of perform_cleanup()
InitialResults == [k \in ResultKeys |-> FALSE]

\* results['error'] = str(e)
WithError(r, msg) ==
  [k \in DOMAIN r \cup {"error"} |-> IF k = "error" THEN msg ELSE r[k]]

\* results[key] = True
WithDone(r, key) == [r EXCEPT ![key] = TRUE]

\* int(os.environ.get('TTL_HOURS', 0)): the setting as an integer, or ValueError
ParseTtlHours(s) ==
  CASE s = ""  -> [ok |-> TRUE, val |-> 0]
    [] s = "0" -> [ok |-> TRUE, val |-> 0]
    [] s = "1" -> [ok |-> TRUE, val |-> 1]
    [] s = "2" -> [ok |-> TRUE, val |-> 2]
    [] OTHER   -> [ok |-> FALSE, val |-> 0]

\* datetime.fromisoformat(tag['Value'].replace('Z', '+00:00')): an aware instant
\* for a value ending in Z or in an offset, a naive one for a value without a
\* zone, ValueError for anything else.
ParseTagValue(tag) ==
  CASE tag.kind = "Z"      -> [ok |-> TRUE, aware |-> TRUE, t |-> tag.t]
    [] tag.kind = "offset" -> [ok |-> TRUE, aware |-> TRUE, t |-> tag.t]
    [] tag.kind = "naive"  -> [ok |-> TRUE, aware |-> FALSE, t |-> tag.t]
    [] OTHER               -> [ok |-> FALSE, aware |-> FALSE, t |-> 0]

\* current_time >= ttl_expiry
\* (a strict comparison would hold back the teardown at the instant of expiry)
TtlReachedStrictly(current_time, ttl_expiry) == current_time > ttl_expiry

TtlReached(current_time, ttl_expiry) == current_time >= ttl_expiry

\* What a platform call on a target can answer: any call can fail with a
\* platform error; a call on an absent target fails with not-found.
Outcomes(present) == IF present THEN {"ok", "error"} ELSE {"notfound", "error"}

\* ------------------------------------------------------------ deployments
\* The identifiers of the stack's resources, in the order the platform lists
\* them.  eip-nat is the NAT gateway's address, eip-free an unassociated address
\* of the stack, eip-other an unassociated address of another stack in the
\* account; rtb-main is the network's main route table, sg-default its default
\* security group.
NatOrder == <<"nat-1">>
EipOrder == <<"eip-nat", "eip-free", "eip-other">>
SubnetOrder == <<"subnet-1", "subnet-2">>
RouteTableOrder == <<"rtb-main", "rtb-1">>
SecurityGroupOrder == <<"sg-default", "sg-1">>
TargetGroupOrder == <<"tg-1", "tg-2">>

Range(q) == {q[n] : n \in DOMAIN q}
NatIds == Range(NatOrder)
EipIds == Range(EipOrder)
SubnetIds == Range(SubnetOrder)
RouteTableIds == Range(RouteTableOrder)
SecurityGroupIds == Range(SecurityGroupOrder)
TargetGroupIds == Range(TargetGroupOrder)

\* The members of a listing that are in set S, in the listing's order.
Listed(order, S) == LET In(x) == x \in S IN SelectSeq(order, In)

NoTag == [kind |-> "none", t |-> 0]
TagValues == {NoTag} \cup [kind : {"Z", "naive", "bad"}, t : {2}]

\* The stack as provisioned: every resource of the deployment exists.
FullPlatform ==
  [cluster |-> TRUE,
   service |-> [exists |-> TRUE, createdAt |-> 1, desired |-> 1],
   alb     |-> [exists |-> TRUE, tag |-> [kind |-> "Z", t |-> 2]],
   tgs     |-> TargetGroupIds,
   bucket  |-> [exists |-> TRUE, objs |-> MaxObjs],
   dns     |-> TRUE,
   cert    |-> TRUE,
   vpc     |-> TRUE,
   nat     |-> [n \in NatIds |-> "available"],
   eips    |-> [e \in EipIds |-> IF e = "eip-nat" THEN "associated" ELSE "free"],
   subnets |-> SubnetIds,
   rts     |-> RouteTableIds,
   igw     |-> "attached",
   sgs     |-> SecurityGroupIds]

FullEnv ==
  [CLUSTER_NAME |-> TRUE, SERVICE_NAME |-> TRUE, TTL_HOURS |-> "1",
   ALB_ARN |-> TRUE, CONFIG_BUCKET |-> TRUE, CUSTOM_DOMAIN |-> TRUE,
   HOSTED_ZONE_ID |-> TRUE, CERTIFICATE_ARN |-> TRUE, VPC_ID |-> TRUE,
   NOTIFICATION_EMAIL |-> TRUE, sns_topic_arn |-> TRUE]

Payloads == [force_destroy : BOOLEAN]
Scheduled == [force_destroy |-> FALSE]

\* The inputs of the TTL check, all combinations: the settings it reads, the
\* service descriptor, the load balancer's tag, the clock and the payload.
TtlDeployments ==
  { [env |-> [FullEnv EXCEPT !.CLUSTER_NAME = c, !.SERVICE_NAME = s,
                             !.TTL_HOURS = h, !.ALB_ARN = a,
                             !.CONFIG_BUCKET = FALSE, !.CUSTOM_DOMAIN = FALSE,
                             !.HOSTED_ZONE_ID = FALSE, !.CERTIFICATE_ARN = FALSE,
                             !.VPC_ID = FALSE],
     aws |-> [FullPlatform EXCEPT !.cluster = pc, !.service = ps, !.alb = pa],
     clock |-> t,
     schedule |-> <<e>>] :
    c \in BOOLEAN, s \in BOOLEAN, h \in {"", "0", "1", "abc"}, a \in BOOLEAN,
    pc \in BOOLEAN,
    ps \in [exists : BOOLEAN, createdAt : {NoTime, 1}, desired : {1}],
    pa \in [exists : BOOLEAN, tag : TagValues],
    t \in Times, e \in Payloads }

\* An expired stack with every choice of optional resources and notifications.
TeardownDeployments ==
  { [env |-> [FullEnv EXCEPT !.ALB_ARN = a, !.CONFIG_BUCKET = b,
                             !.CUSTOM_DOMAIN = d, !.HOSTED_ZONE_ID = z,
                             !.CERTIFICATE_ARN = k, !.VPC_ID = v,
                             !.NOTIFICATION_EMAIL = n, !.sns_topic_arn = n /\ o],
     aws |-> [FullPlatform EXCEPT !.bucket.objs = m],
     clock |-> MaxNow,
     schedule |-> <<Scheduled>>] :
    a \in BOOLEAN, b \in BOOLEAN, d \in BOOLEAN, z \in BOOLEAN, k \in BOOLEAN,
    v \in BOOLEAN, n \in BOOLEAN, o \in BOOLEAN, m \in 0..MaxObjs }

\* The fully configured expired stack, invoked MaxRuns times in succession,
\* with any one resource kind deleted externally beforehand.
RerunDeployments ==
  { [env |-> FullEnv, aws |-> [p EXCEPT !.bucket.objs = m], clock |-> MaxNow,
     schedule |-> [r \in 1..MaxRuns |-> Scheduled]] :
    m \in 0..MaxObjs,
    p \in { FullPlatform,
            [FullPlatform EXCEPT !.alb.exists = FALSE],
            [FullPlatform EXCEPT !.bucket.exists = FALSE],
            [FullPlatform EXCEPT !.cert = FALSE],
            [FullPlatform EXCEPT !.dns = FALSE],
            [FullPlatform EXCEPT !.service.exists = FALSE],
            [FullPlatform EXCEPT !.vpc = FALSE, !.subnets = {}, !.rts = {},
                                 !.sgs = {}, !.igw = "deleted",
                                 !.nat = [n \in NatIds |-> "deleted"],
                                 !.eips["eip-nat"] = "released",
                                 !.eips["eip-free"] = "released"] } }

Deployments == TtlDeployments \cup TeardownDeployments \cup RerunDeployments

\* An invocation slot before its first invocation.
Idle ==
  [pc |-> "idle", event |-> Scheduled, expired |-> FALSE, ttlSource |-> "none",
   results |-> InitialResults, calls |-> <<>>, todo |-> <<>>,
   summary |-> [success_count |-> 0, total_operations |-> 0],
   response |-> [statusCode |-> 0]]

Init ==
  /\ \E d \in Deployments :
       /\ env = d.env
       /\ aws = d.aws
       /\ clock = d.clock
       /\ schedule = d.schedule
  /\ prevClean = FALSE
  /\ inv = [i \in Inv |-> Idle]
  /\ reload = "off"
  /\ locust = "off"

\* ---------------------------------------------------- local state updates
At(s, p) == [s EXCEPT !.pc = p]

\* A platform call the invocation issued, and how the platform answered; the
\* waits of time.sleep are logged with it as op "sleep".
Called(s, op, arg, res) ==
  [s EXCEPT !.calls = Append(@, [op |-> op, arg |-> arg, res |-> res])]

\* return <value> from should_cleanup() / check_ttl_from_tags()
Decide(s, value, source) ==
  [s EXCEPT !.expired = value, !.ttlSource = source, !.pc = "handler_check"]

\* Every resource kind the deployment configures is gone from the platform.
StackGone ==
  /\ ~aws.cluster /\ ~aws.service.exists
  /\ env.ALB_ARN => (~aws.alb.exists /\ aws.tgs = {})
  /\ env.CONFIG_BUCKET => ~aws.bucket.exists
  /\ (env.CUSTOM_DOMAIN /\ env.HOSTED_ZONE_ID) => ~aws.dns
  /\ env.CERTIFICATE_ARN => ~aws.cert
  /\ env.VPC_ID => ~aws.vpc

\* ----------------------------------------------------------------- handler
\* The trigger invokes handler(event, context).
Invoke(i) ==
  /\ inv[i].pc \in {"idle", "done"}
  /\ schedule # <<>>
  /\ inv' = [inv EXCEPT ![i] =
               [Idle EXCEPT !.pc = "should_cleanup", !.event = Head(schedule)]]
  /\ schedule' = Tail(schedule)
  /\ prevClean' = (inv[i].pc = "done" /\ StackGone)
  /\ UNCHANGED <<reload, locust, env, aws, clock>>

\* The singleton schedule: an invocation starts when none is running.
Start(i) ==
  /\ \A j \in Inv : inv[j].pc \in {"idle", "done"}
  /\ Invoke(i)

\* should_cleanup(), lines 67-73: the settings
ShouldCleanupSettings(i) ==
  /\ inv[i].pc = "should_cleanup"
  /\ LET ttl_hours == ParseTtlHours(env.TTL_HOURS) IN
       inv' = [inv EXCEPT ![i] =
         IF ~ttl_hours.ok THEN Decide(@, FALSE, "error")
         ELSE IF ~env.CLUSTER_NAME \/ ~env.SERVICE_NAME \/ ttl_hours.val = 0
              THEN Decide(@, FALSE, "unconfigured")
              ELSE At(@, "describe_services")]
  /\ UNCHANGED <<reload, locust, env, aws, clock, schedule, prevClean>>

\* should_cleanup(), lines 78-97, after describe_services answered `out`: a
\* raised error returns False, a missing service returns True, a service
\* without createdAt falls back to the tags
\* (a variant that takes a describe_services error for a stack to clean up, as
\* it does a missing service)
FromServiceFailOpen(s, out) ==
  LET ttl_hours == ParseTtlHours(env.TTL_HOURS).val
      created_at == aws.service.createdAt
  IN IF out # "ok" THEN Decide(s, TRUE, "error")
     ELSE IF ~aws.service.exists THEN Decide(s, TRUE, "service_not_found")
     ELSE IF created_at = NoTime THEN At(s, "check_ttl_from_tags")
     ELSE Decide(s, TtlReached(clock, created_at + ttl_hours), "created_at")

FromService(s, out) ==
  LET ttl_hours == ParseTtlHours(env.TTL_HOURS).val
      created_at == aws.service.createdAt
  IN IF out # "ok" THEN Decide(s, FALSE, "error")
     ELSE IF ~aws.service.exists THEN Decide(s, TRUE, "service_not_found")
     ELSE IF created_at = NoTime THEN At(s, "check_ttl_from_tags")
     ELSE Decide(s, TtlReached(clock, created_at + ttl_hours), "created_at")

\* should_cleanup(), lines 75-76: ecs.describe_services; the platform raises
\* for a cluster that does not exist and lists no service for a service that
\* does not
DescribeServices(i) ==
  /\ inv[i].pc = "describe_services"
  /\ \E out \in Outcomes(aws.cluster) :
       inv' = [inv EXCEPT ![i] =
         FromService(Called(@, "describe_services", "service", out), out)]
  /\ UNCHANGED <<reload, locust, env, aws, clock, schedule, prevClean>>

\* check_ttl_from_tags(), lines 99-118
CheckTtlFromTags(i) ==
  /\ inv[i].pc = "check_ttl_from_tags"
  /\ IF ~env.ALB_ARN
     THEN inv' = [inv EXCEPT ![i] = Decide(@, FALSE, "none")]
     ELSE \E out \in Outcomes(aws.alb.exists) :
            LET s == Called(inv[i], "describe_tags", "alb", out)
                v == ParseTagValue(aws.alb.tag)
            IN inv' = [inv EXCEPT ![i] =
                 IF out # "ok" THEN Decide(s, FALSE, "error")
                 ELSE IF aws.alb.tag.kind = "none" THEN Decide(s, FALSE, "none")
                 ELSE IF ~v.ok \/ ~v.aware THEN Decide(s, FALSE, "error")
                 ELSE Decide(s, TtlReached(clock, v.t), "tag")]
  /\ UNCHANGED <<reload, locust, env, aws, clock, schedule, prevClean>>

\* handler(), lines 35-41: skip, or go on to the teardown
\* (a handler without the early return of lines 35-37)
HandlerCheckNoSkip(i) ==
  /\ inv[i].pc = "handler_check"
  /\ inv' = [inv EXCEPT ![i] =
       IF env.NOTIFICATION_EMAIL THEN At(@, "send_cleanup_notification")
       ELSE At(@, "perform_cleanup")]
  /\ UNCHANGED <<reload, locust, env, aws, clock, schedule, prevClean>>

HandlerCheck(i) ==
  /\ inv[i].pc = "handler_check"
  /\ inv' = [inv EXCEPT ![i] =
       IF ~inv[i].expired
       THEN [@ EXCEPT !.pc = "done",
                      !.response = [statusCode |-> 200, message |-> "TTL not expired"]]
       ELSE IF env.NOTIFICATION_EMAIL THEN At(@, "send_cleanup_notification")
       ELSE At(@, "perform_cleanup")]
  /\ UNCHANGED <<reload, locust, env, aws, clock, schedule, prevClean>>

\* (a publish whose failure is not caught would end in handler()'s except
\* clause, lines 59-63)
SendCleanupNotificationRaises(i) ==
  /\ inv[i].pc = "send_cleanup_notification"
  /\ IF ~env.sns_topic_arn
     THEN inv' = [inv EXCEPT ![i] = At(@, "perform_cleanup")]
     ELSE \E out \in {"ok", "error"} :
            LET s == Called(inv[i], "publish", "Cleanup Starting", out) IN
            inv' = [inv EXCEPT ![i] =
              IF out = "ok" THEN At(s, "perform_cleanup")
              ELSE [s EXCEPT !.pc = "done",
                             !.response = [statusCode |-> 500, error |-> "publish"]]]
  /\ UNCHANGED <<reload, locust, env, aws, clock, schedule, prevClean>>

\* send_cleanup_notification(), lines 360-397: a failed publish is swallowed
SendCleanupNotification(i) ==
  /\ inv[i].pc = "send_cleanup_notification"
  /\ IF ~env.sns_topic_arn
     THEN inv' = [inv EXCEPT ![i] = At(@, "perform_cleanup")]
     ELSE \E out \in {"ok", "error"} :
            inv' = [inv EXCEPT ![i] =
              At(Called(@, "publish", "Cleanup Starting", out), "perform_cleanup")]
  /\ UNCHANGED <<reload, locust, env, aws, clock, schedule, prevClean>>

\* ---------------------------------------------------------- perform_cleanup
\* except Exception as e: results['error'] = str(e), lines 204-208
\* (without the except clause the error would reach handler()'s, lines 59-63)
FailUncaught(s, op) ==
  [s EXCEPT !.pc = "done", !.response = [statusCode |-> 500, error |-> op]]

Fail(s, op) == [s EXCEPT !.results = WithError(@, op), !.pc = "after_cleanup"]

\* results[key] = True, then on to the next step
Succeed(s, key, p) == [s EXCEPT !.results = WithDone(@, key), !.pc = p]

\* perform_cleanup(), lines 120-131
PerformCleanup(i) ==
  /\ inv[i].pc = "perform_cleanup"
  /\ inv' = [inv EXCEPT ![i] = [@ EXCEPT !.results = InitialResults, !.pc = "ecs"]]
  /\ UNCHANGED <<reload, locust, env, aws, clock, schedule, prevClean>>

\* lines 134-140: ecs.update_service(desiredCount=0)
UpdateService(i) ==
  /\ inv[i].pc = "ecs"
  /\ IF ~(env.CLUSTER_NAME /\ env.SERVICE_NAME)
     THEN inv' = [inv EXCEPT ![i] = At(@, "alb")] /\ UNCHANGED aws
     ELSE \E out \in Outcomes(aws.cluster /\ aws.service.exists) :
            LET s == Called(inv[i], "update_service", "service", out) IN
            /\ inv' = [inv EXCEPT ![i] =
                 IF out = "ok" THEN At(s, "sleep_30") ELSE Fail(s, "update_service")]
            /\ aws' = IF out = "ok" THEN [aws EXCEPT !.service.desired = 0] ELSE aws
  /\ UNCHANGED <<reload, locust, env, clock, schedule, prevClean>>

\* lines 142-144: time.sleep(30)
SleepForTasks(i) ==
  /\ inv[i].pc = "sleep_30"
  /\ inv' = [inv EXCEPT ![i] = At(Called(@, "sleep", "30", "ok"), "delete_service")]
  /\ UNCHANGED <<reload, locust, env, aws, clock, schedule, prevClean>>

\* lines 146-147: ecs.delete_service
\* (a variant that goes on to the cluster whatever the service delete answered)
DeleteServiceThenClusterAnyway(i) ==
  /\ inv[i].pc = "delete_service"
  /\ \E out \in Outcomes(aws.cluster /\ aws.service.exists) :
       LET s == Called(inv[i], "delete_service", "service", out) IN
       /\ inv' = [inv EXCEPT ![i] =
            IF out = "ok" THEN Succeed(s, "ecs_service", "delete_cluster")
            ELSE At(s, "delete_cluster")]
       /\ aws' = IF out = "ok" THEN [aws EXCEPT !.service.exists = FALSE] ELSE aws
  /\ UNCHANGED <<reload, locust, env, clock, schedule, prevClean>>

DeleteService(i) ==
  /\ inv[i].pc = "delete_service"
  /\ \E out \in Outcomes(aws.cluster /\ aws.service.exists) :
       LET s == Called(inv[i], "delete_service", "service", out) IN
       /\ inv' = [inv EXCEPT ![i] =
            IF out = "ok" THEN Succeed(s, "ecs_service", "delete_cluster")
            ELSE Fail(s, "delete_service")]
       /\ aws' = IF out = "ok" THEN [aws EXCEPT !.service.exists = FALSE] ELSE aws
  /\ UNCHANGED <<reload, locust, env, clock, schedule, prevClean>>

\* lines 149-152: ecs.delete_cluster; the platform refuses a cluster that
\* still holds a service
\* (a variant that logs a failed cluster delete and goes on)
DeleteClusterBestEffort(i) ==
  /\ inv[i].pc = "delete_cluster"
  /\ \E out \in (IF aws.cluster /\ aws.service.exists
                 THEN {"error"} ELSE Outcomes(aws.cluster)) :
       LET s == Called(inv[i], "delete_cluster", "cluster", out) IN
       /\ inv' = [inv EXCEPT ![i] =
            IF out = "ok" THEN Succeed(s, "ecs_cluster", "alb") ELSE At(s, "alb")]
       /\ aws' = IF out = "ok" THEN [aws EXCEPT !.cluster = FALSE] ELSE aws
  /\ UNCHANGED <<reload, locust, env, clock, schedule, prevClean>>

DeleteCluster(i) ==
  /\ inv[i].pc = "delete_cluster"
  /\ \E out \in (IF aws.cluster /\ aws.service.exists
                 THEN {"error"} ELSE Outcomes(aws.cluster)) :
       LET s == Called(inv[i], "delete_cluster", "cluster", out) IN
       /\ inv' = [inv EXCEPT ![i] =
            IF out = "ok" THEN Succeed(s, "ecs_cluster", "alb")
            ELSE Fail(s, "delete_cluster")]
       /\ aws' = IF out = "ok" THEN [aws EXCEPT !.cluster = FALSE] ELSE aws
  /\ UNCHANGED <<reload, locust, env, clock, schedule, prevClean>>

\* lines 154-164: the target groups that name the load balancer
\* (a variant that goes to the target groups without deleting the load
\* balancer first)
DescribeTargetGroupsThenDeleteThem(i) ==
  /\ inv[i].pc = "alb"
  /\ IF ~env.ALB_ARN
     THEN inv' = [inv EXCEPT ![i] = At(@, "s3")]
     ELSE \E out \in {"ok", "error"} :
            LET s == Called(inv[i], "describe_target_groups", "all", out)
                alb_target_groups ==
                  IF aws.alb.exists THEN Listed(TargetGroupOrder, aws.tgs) ELSE <<>>
            IN inv' = [inv EXCEPT ![i] =
                 IF out = "ok"
                 THEN [s EXCEPT !.todo = alb_target_groups, !.pc = "delete_target_groups"]
                 ELSE Fail(s, "describe_target_groups")]
  /\ UNCHANGED <<reload, locust, env, aws, clock, schedule, prevClean>>

DescribeTargetGroups(i) ==
  /\ inv[i].pc = "alb"
  /\ IF ~env.ALB_ARN
     THEN inv' = [inv EXCEPT ![i] = At(@, "s3")]
     ELSE \E out \in {"ok", "error"} :
            LET s == Called(inv[i], "describe_target_groups", "all", out)
                alb_target_groups ==
                  IF aws.alb.exists THEN Listed(TargetGroupOrder, aws.tgs) ELSE <<>>
            IN inv' = [inv EXCEPT ![i] =
                 IF out = "ok"
                 THEN [s EXCEPT !.todo = alb_target_groups, !.pc = "delete_load_balancer"]
                 ELSE Fail(s, "describe_target_groups")]
  /\ UNCHANGED <<reload, locust, env, aws, clock, schedule, prevClean>>

\* lines 166-168: elbv2.delete_load_balancer; the platform may answer an
\* absent load balancer with success or with not-found
DeleteLoadBalancer(i) ==
  /\ inv[i].pc = "delete_load_balancer"
  /\ \E out \in Outcomes(aws.alb.exists) \cup {"ok"} :
       LET s == Called(inv[i], "delete_load_balancer", "alb", out) IN
       /\ inv' = [inv EXCEPT ![i] =
            IF out = "ok" THEN Succeed(s, "load_balancer", "delete_target_groups")
            ELSE Fail(s, "delete_load_balancer")]
       /\ aws' = IF out = "ok" THEN [aws EXCEPT !.alb.exists = FALSE] ELSE aws
  /\ UNCHANGED <<reload, locust, env, clock, schedule, prevClean>>

\* lines 170-174: for tg_arn in alb_target_groups: delete_target_group
DeleteTargetGroups(i) ==
  /\ inv[i].pc = "delete_target_groups"
  /\ IF inv[i].todo = <<>>
     THEN inv' = [inv EXCEPT ![i] = Succeed(@, "target_groups", "s3")] /\ UNCHANGED aws
     ELSE LET tg == Head(inv[i].todo) IN
          \E out \in Outcomes(tg \in aws.tgs) \cup {"ok"} :
            LET s == Called(inv[i], "delete_target_group", tg, out) IN
            /\ inv' = [inv EXCEPT ![i] =
                 IF out = "ok" THEN [s EXCEPT !.todo = Tail(@)]
                 ELSE Fail(s, "delete_target_group")]
            /\ aws' = IF out = "ok" THEN [aws EXCEPT !.tgs = @ \ {tg}] ELSE aws
  /\ UNCHANGED <<reload, locust, env, clock, schedule, prevClean>>

\* lines 176-180, 212-214: s3.list_objects_v2, one page of keys
ListObjects(i) ==
  /\ inv[i].pc = "s3"
  /\ IF ~env.CONFIG_BUCKET
     THEN inv' = [inv EXCEPT ![i] = At(@, "route53")]
     ELSE \E out \in Outcomes(aws.bucket.exists) :
            LET s == Called(inv[i], "list_objects_v2", "bucket", out)
                n == IF aws.bucket.objs < PageSize THEN aws.bucket.objs ELSE PageSize
                objects_to_delete == [k \in 1..n |-> "key"]
            IN inv' = [inv EXCEPT ![i] =
                 IF out # "ok" THEN Fail(s, "list_objects_v2")
                 ELSE IF n > 0
                      THEN [s EXCEPT !.todo = objects_to_delete, !.pc = "delete_objects"]
                      ELSE At(s, "delete_bucket")]
  /\ UNCHANGED <<reload, locust, env, aws, clock, schedule, prevClean>>

\* lines 215-217: s3.delete_objects on the listed keys
DeleteObjects(i) ==
  /\ inv[i].pc = "delete_objects"
  /\ \E out \in Outcomes(aws.bucket.exists) :
       LET s == Called(inv[i], "delete_objects", "bucket", out)
           left == aws.bucket.objs - Len(inv[i].todo)
       IN
       /\ inv' = [inv EXCEPT ![i] =
            IF out = "ok" THEN [s EXCEPT !.todo = <<>>, !.pc = "delete_bucket"]
            ELSE Fail(s, "delete_objects")]
       /\ aws' = IF out = "ok"
                 THEN [aws EXCEPT !.bucket.objs = IF left > 0 THEN left ELSE 0]
                 ELSE aws
  /\ UNCHANGED <<reload, locust, env, clock, schedule, prevClean>>

\* lines 219-225, 181: s3.delete_bucket; the platform refuses a bucket that
\* is not empty
\* (a variant that records the bucket as done whatever delete_bucket answered)
DeleteBucketRecordedAnyway(i) ==
  /\ inv[i].pc = "delete_bucket"
  /\ \E out \in (IF aws.bucket.exists /\ aws.bucket.objs > 0
                 THEN {"error"} ELSE Outcomes(aws.bucket.exists)) :
       LET s == Called(inv[i], "delete_bucket", "bucket", out) IN
       /\ inv' = [inv EXCEPT ![i] = Succeed(s, "s3_bucket", "route53")]
       /\ aws' = IF out = "ok" THEN [aws EXCEPT !.bucket.exists = FALSE] ELSE aws
  /\ UNCHANGED <<reload, locust, env, clock, schedule, prevClean>>

DeleteBucket(i) ==
  /\ inv[i].pc = "delete_bucket"
  /\ \E out \in (IF aws.bucket.exists /\ aws.bucket.objs > 0
                 THEN {"error"} ELSE Outcomes(aws.bucket.exists)) :
       LET s == Called(inv[i], "delete_bucket", "bucket", out) IN
       /\ inv' = [inv EXCEPT ![i] =
            IF out = "ok" THEN Succeed(s, "s3_bucket", "route53")
            ELSE Fail(s, "delete_bucket")]
       /\ aws' = IF out = "ok" THEN [aws EXCEPT !.bucket.exists = FALSE] ELSE aws
  /\ UNCHANGED <<reload, locust, env, clock, schedule, prevClean>>

\* lines 183-187, 227-243: the alias records of the custom domain
ListResourceRecordSets(i) ==
  /\ inv[i].pc = "route53"
  /\ IF ~env.CUSTOM_DOMAIN
     THEN inv' = [inv EXCEPT ![i] = At(@, "ssl")]
     ELSE IF ~env.HOSTED_ZONE_ID
     THEN inv' = [inv EXCEPT ![i] = Succeed(@, "route53_records", "ssl")]
     ELSE \E out \in {"ok", "error"} :
            LET s == Called(inv[i], "list_resource_record_sets", "zone", out) IN
            inv' = [inv EXCEPT ![i] =
              IF out # "ok" THEN Fail(s, "list_resource_record_sets")
              ELSE IF aws.dns THEN At(s, "change_resource_record_sets")
              ELSE Succeed(s, "route53_records", "ssl")]
  /\ UNCHANGED <<reload, locust, env, aws, clock, schedule, prevClean>>

\* lines 245-254: route53.change_resource_record_sets(DELETE ...)
ChangeResourceRecordSets(i) ==
  /\ inv[i].pc = "change_resource_record_sets"
  /\ \E out \in Outcomes(aws.dns) :
       LET s == Called(inv[i], "change_resource_record_sets", "zone", out) IN
       /\ inv' = [inv EXCEPT ![i] =
            IF out = "ok" THEN Succeed(s, "route53_records", "ssl")
            ELSE Fail(s, "change_resource_record_sets")]
       /\ aws' = IF out = "ok" THEN [aws EXCEPT !.dns = FALSE] ELSE aws
  /\ UNCHANGED <<reload, locust, env, clock, schedule, prevClean>>

\* lines 189-193, 256-264: acm.describe_certificate; ResourceNotFoundException
\* is caught (lines 267-268)
DescribeCertificate(i) ==
  /\ inv[i].pc = "ssl"
  /\ IF ~env.CERTIFICATE_ARN
     THEN inv' = [inv EXCEPT ![i] = At(@, "vpc")]
     ELSE \E out \in Outcomes(aws.cert) :
            LET s == Called(inv[i], "describe_certificate", "cert", out) IN
            inv' = [inv EXCEPT ![i] =
              CASE out = "ok"       -> At(s, "delete_certificate")
                [] out = "notfound" -> Succeed(s, "ssl_certificate", "vpc")
                [] OTHER            -> Fail(s, "describe_certificate")]
  /\ UNCHANGED <<reload, locust, env, aws, clock, schedule, prevClean>>

\* lines 265-272: acm.delete_certificate
DeleteCertificate(i) ==
  /\ inv[i].pc = "delete_certificate"
  /\ \E out \in Outcomes(aws.cert) :
       LET s == Called(inv[i], "delete_certificate", "cert", out) IN
       /\ inv' = [inv EXCEPT ![i] =
            CASE out = "ok"       -> Succeed(s, "ssl_certificate", "vpc")
              [] out = "notfound" -> Succeed(s, "ssl_certificate", "vpc")
              [] OTHER            -> Fail(s, "delete_certificate")]
       /\ aws' = IF out = "ok" THEN [aws EXCEPT !.cert = FALSE] ELSE aws
  /\ UNCHANGED <<reload, locust, env, clock, schedule, prevClean>>

\* ------------------------------------------------------ cleanup_vpc_resources
\* lines 195-199, 276-281: ec2.describe_vpcs; for a network that is gone the
\* platform answers with an empty list or with not-found
DescribeVpcs(i) ==
  /\ inv[i].pc = "vpc"
  /\ IF ~env.VPC_ID
     THEN inv' = [inv EXCEPT ![i] = At(@, "after_cleanup")]
     ELSE \E out \in Outcomes(aws.vpc) \cup (IF aws.vpc THEN {} ELSE {"empty"}) :
            LET s == Called(inv[i], "describe_vpcs", "vpc", out) IN
            inv' = [inv EXCEPT ![i] =
              CASE out = "ok"    -> At(s, "describe_nat_gateways")
                [] out = "empty" -> Succeed(s, "vpc_resources", "after_cleanup")
                [] OTHER         -> Fail(s, "describe_vpcs")]
  /\ UNCHANGED <<reload, locust, env, aws, clock, schedule, prevClean>>

\* lines 283-286: ec2.describe_nat_gateways(vpc-id)
DescribeNatGateways(i) ==
  /\ inv[i].pc = "describe_nat_gateways"
  /\ \E out \in {"ok", "error"} :
       LET s == Called(inv[i], "describe_nat_gateways", "vpc", out)
           nat_gateways ==
             [n \in DOMAIN NatOrder |->
                [id |-> NatOrder[n], state |-> aws.nat[NatOrder[n]]]]
       IN inv' = [inv EXCEPT ![i] =
            IF out = "ok"
            THEN [s EXCEPT !.todo = nat_gateways, !.pc = "delete_nat_gateways"]
            ELSE Fail(s, "describe_nat_gateways")]
  /\ UNCHANGED <<reload, locust, env, aws, clock, schedule, prevClean>>

\* lines 288-291: delete every NAT gateway not already deleted or deleting
DeleteNatGateways(i) ==
  /\ inv[i].pc = "delete_nat_gateways"
  /\ IF inv[i].todo = <<>>
     THEN inv' = [inv EXCEPT ![i] = At(@, "sleep_60")] /\ UNCHANGED aws
     ELSE LET nat_gw == Head(inv[i].todo) IN
          IF nat_gw.state \in {"deleted", "deleting"}
          THEN inv' = [inv EXCEPT ![i] = [@ EXCEPT !.todo = Tail(@)]] /\ UNCHANGED aws
          ELSE \E out \in Outcomes(aws.nat[nat_gw.id] # "deleted") :
                 LET s == Called(inv[i], "delete_nat_gateway", nat_gw.id, out) IN
                 /\ inv' = [inv EXCEPT ![i] =
                      IF out = "ok" THEN [s EXCEPT !.todo = Tail(@)]
                      ELSE Fail(s, "delete_nat_gateway")]
                 /\ aws' = IF out = "ok"
                           THEN [aws EXCEPT !.nat[nat_gw.id] = "deleting"]
                           ELSE aws
  /\ UNCHANGED <<reload, locust, env, clock, schedule, prevClean>>

\* The platform finishes deleting a NAT gateway some time after the call, and
\* the gateway's address loses its association.
NatGatewayGone(n) ==
  /\ aws.nat[n] = "deleting"
  /\ aws' = [aws EXCEPT !.nat[n] = "deleted",
                         !.eips["eip-nat"] = IF @ = "associated" THEN "free" ELSE @]
  /\ UNCHANGED <<reload, locust, env, clock, schedule, prevClean, inv>>

\* lines 293-295: time.sleep(60)
\* (a variant without the wait)
ReleaseWithoutSettling(i) ==
  /\ inv[i].pc = "sleep_60"
  /\ inv' = [inv EXCEPT ![i] = At(@, "describe_addresses")]
  /\ UNCHANGED <<reload, locust, env, aws, clock, schedule, prevClean>>

SleepForNatGateways(i) ==
  /\ inv[i].pc = "sleep_60"
  /\ inv' = [inv EXCEPT ![i] = At(Called(@, "sleep", "60", "ok"), "describe_addresses")]
  /\ UNCHANGED <<reload, locust, env, aws, clock, schedule, prevClean>>

\* lines 297-300: ec2.describe_addresses(domain = vpc): every VPC-domain
\* address of the account
DescribeAddresses(i) ==
  /\ inv[i].pc = "describe_addresses"
  /\ \E out \in {"ok", "error"} :
       LET s == Called(inv[i], "describe_addresses", "account", out)
           held == Listed(EipOrder, {e \in EipIds : aws.eips[e] # "released"})
           addresses ==
             [n \in DOMAIN held |->
                [id |-> held[n], associated |-> aws.eips[held[n]] = "associated"]]
       IN inv' = [inv EXCEPT ![i] =
            IF out = "ok"
            THEN [s EXCEPT !.todo = addresses, !.pc = "release_addresses"]
            ELSE Fail(s, "describe_addresses")]
  /\ UNCHANGED <<reload, locust, env, aws, clock, schedule, prevClean>>

\* lines 302-308: release the addresses listed without an AssociationId; a
\* failed release is logged and the loop goes on
\* (a variant without the try/except of lines 304-308 and without the test of
\* the AssociationId)
ReleaseAddressesUnguarded(i) ==
  /\ inv[i].pc = "release_addresses"
  /\ IF inv[i].todo = <<>>
     THEN inv' = [inv EXCEPT ![i] = At(@, "describe_subnets")] /\ UNCHANGED aws
     ELSE LET addr == Head(inv[i].todo) IN
          \E out \in Outcomes(aws.eips[addr.id] = "free") :
            LET s == Called(inv[i], "release_address", addr.id, out) IN
            /\ inv' = [inv EXCEPT ![i] =
                 IF out = "ok" THEN [s EXCEPT !.todo = Tail(@)]
                 ELSE Fail(s, "release_address")]
            /\ aws' = IF out = "ok"
                      THEN [aws EXCEPT !.eips[addr.id] = "released"]
                      ELSE aws
  /\ UNCHANGED <<reload, locust, env, clock, schedule, prevClean>>

ReleaseAddresses(i) ==
  /\ inv[i].pc = "release_addresses"
  /\ IF inv[i].todo = <<>>
     THEN inv' = [inv EXCEPT ![i] = At(@, "describe_subnets")] /\ UNCHANGED aws
     ELSE LET addr == Head(inv[i].todo) IN
          IF addr.associated
          THEN inv' = [inv EXCEPT ![i] = [@ EXCEPT !.todo = Tail(@)]] /\ UNCHANGED aws
          ELSE \E out \in Outcomes(aws.eips[addr.id] = "free") :
                 /\ inv' = [inv EXCEPT ![i] =
                      [Called(@, "release_address", addr.id, out) EXCEPT !.todo = Tail(@)]]
                 /\ aws' = IF out = "ok"
                           THEN [aws EXCEPT !.eips[addr.id] = "released"]
                           ELSE aws
  /\ UNCHANGED <<reload, locust, env, clock, schedule, prevClean>>

\* lines 310-313: ec2.describe_subnets(vpc-id)
DescribeSubnets(i) ==
  /\ inv[i].pc = "describe_subnets"
  /\ \E out \in {"ok", "error"} :
       LET s == Called(inv[i], "describe_subnets", "vpc", out) IN
       inv' = [inv EXCEPT ![i] =
         IF out = "ok"
         THEN [s EXCEPT !.todo = Listed(SubnetOrder, aws.subnets), !.pc = "delete_subnets"]
         ELSE Fail(s, "describe_subnets")]
  /\ UNCHANGED <<reload, locust, env, aws, clock, schedule, prevClean>>

\* lines 315-317: delete every subnet
DeleteSubnets(i) ==
  /\ inv[i].pc = "delete_subnets"
  /\ IF inv[i].todo = <<>>
     THEN inv' = [inv EXCEPT ![i] = At(@, "describe_route_tables")] /\ UNCHANGED aws
     ELSE LET subnet == Head(inv[i].todo) IN
          \E out \in Outcomes(subnet \in aws.subnets) :
            LET s == Called(inv[i], "delete_subnet", subnet, out) IN
            /\ inv' = [inv EXCEPT ![i] =
                 IF out = "ok" THEN [s EXCEPT !.todo = Tail(@)]
                 ELSE Fail(s, "delete_subnet")]
            /\ aws' = IF out = "ok" THEN [aws EXCEPT !.subnets = @ \ {subnet}] ELSE aws
  /\ UNCHANGED <<reload, locust, env, clock, schedule, prevClean>>

\* lines 319-322: ec2.describe_route_tables(vpc-id)
DescribeRouteTables(i) ==
  /\ inv[i].pc = "describe_route_tables"
  /\ \E out \in {"ok", "error"} :
       LET s == Called(inv[i], "describe_route_tables", "vpc", out)
           held == Listed(RouteTableOrder, aws.rts)
           route_tables ==
             [n \in DOMAIN held |-> [id |-> held[n], main |-> held[n] = "rtb-main"]]
       IN inv' = [inv EXCEPT ![i] =
            IF out = "ok"
            THEN [s EXCEPT !.todo = route_tables, !.pc = "delete_route_tables"]
            ELSE Fail(s, "describe_route_tables")]
  /\ UNCHANGED <<reload, locust, env, aws, clock, schedule, prevClean>>

\* lines 324-327: delete every route table without a Main association
DeleteRouteTables(i) ==
  /\ inv[i].pc = "delete_route_tables"
  /\ IF inv[i].todo = <<>>
     THEN inv' = [inv EXCEPT ![i] = At(@, "describe_internet_gateways")]
          /\ UNCHANGED aws
     ELSE LET rt == Head(inv[i].todo) IN
          IF rt.main
          THEN inv' = [inv EXCEPT ![i] = [@ EXCEPT !.todo = Tail(@)]] /\ UNCHANGED aws
          ELSE \E out \in Outcomes(rt.id \in aws.rts) :
                 LET s == Called(inv[i], "delete_route_table", rt.id, out) IN
                 /\ inv' = [inv EXCEPT ![i] =
                      IF out = "ok" THEN [s EXCEPT !.todo = Tail(@)]
                      ELSE Fail(s, "delete_route_table")]
                 /\ aws' = IF out = "ok" THEN [aws EXCEPT !.rts = @ \ {rt.id}] ELSE aws
  /\ UNCHANGED <<reload, locust, env, clock, schedule, prevClean>>

\* lines 329-332: ec2.describe_internet_gateways(attachment.vpc-id)
DescribeInternetGateways(i) ==
  /\ inv[i].pc = "describe_internet_gateways"
  /\ \E out \in {"ok", "error"} :
       LET s == Called(inv[i], "describe_internet_gateways", "vpc", out)
           igws == IF aws.igw = "attached" THEN <<"igw-1">> ELSE <<>>
       IN inv' = [inv EXCEPT ![i] =
            IF out = "ok"
            THEN [s EXCEPT !.todo = igws, !.pc = "detach_internet_gateway"]
            ELSE Fail(s, "describe_internet_gateways")]
  /\ UNCHANGED <<reload, locust, env, aws, clock, schedule, prevClean>>

\* lines 334-338: ec2.detach_internet_gateway
DetachInternetGateway(i) ==
  /\ inv[i].pc = "detach_internet_gateway"
  /\ IF inv[i].todo = <<>>
     THEN inv' = [inv EXCEPT ![i] = At(@, "describe_security_groups")]
          /\ UNCHANGED aws
     ELSE \E out \in Outcomes(aws.igw = "attached") :
            LET s == Called(inv[i], "detach_internet_gateway", Head(inv[i].todo), out) IN
            /\ inv' = [inv EXCEPT ![i] =
                 IF out = "ok" THEN At(s, "delete_internet_gateway")
                 ELSE Fail(s, "detach_internet_gateway")]
            /\ aws' = IF out = "ok" THEN [aws EXCEPT !.igw = "detached"] ELSE aws
  /\ UNCHANGED <<reload, locust, env, clock, schedule, prevClean>>

\* lines 339-340: ec2.delete_internet_gateway; the platform refuses a gateway
\* that is still attached
DeleteInternetGateway(i) ==
  /\ inv[i].pc = "delete_internet_gateway"
  /\ \E out \in (IF aws.igw = "attached" THEN {"error"}
                 ELSE Outcomes(aws.igw = "detached")) :
       LET s == Called(inv[i], "delete_internet_gateway", Head(inv[i].todo), out) IN
       /\ inv' = [inv EXCEPT ![i] =
            IF out = "ok" THEN [s EXCEPT !.todo = Tail(@), !.pc = "detach_internet_gateway"]
            ELSE Fail(s, "delete_internet_gateway")]
       /\ aws' = IF out = "ok" THEN [aws EXCEPT !.igw = "deleted"] ELSE aws
  /\ UNCHANGED <<reload, locust, env, clock, schedule, prevClean>>

\* lines 342-345: ec2.describe_security_groups(vpc-id)
DescribeSecurityGroups(i) ==
  /\ inv[i].pc = "describe_security_groups"
  /\ \E out \in {"ok", "error"} :
       LET s == Called(inv[i], "describe_security_groups", "vpc", out)
           held == Listed(SecurityGroupOrder, aws.sgs)
           security_groups ==
             [n \in DOMAIN held |->
                [id |-> held[n],
                 GroupName |-> IF held[n] = "sg-default" THEN "default" ELSE "automock"]]
       IN inv' = [inv EXCEPT ![i] =
            IF out = "ok"
            THEN [s EXCEPT !.todo = security_groups, !.pc = "delete_security_groups"]
            ELSE Fail(s, "describe_security_groups")]
  /\ UNCHANGED <<reload, locust, env, aws, clock, schedule, prevClean>>

\* lines 347-350: delete every security group not named default
\* (a variant without the test of the group name)
DeleteSecurityGroupsAll(i) ==
  /\ inv[i].pc = "delete_security_groups"
  /\ IF inv[i].todo = <<>>
     THEN inv' = [inv EXCEPT ![i] = At(@, "delete_vpc")] /\ UNCHANGED aws
     ELSE LET sg == Head(inv[i].todo) IN
          \E out \in Outcomes(sg.id \in aws.sgs) :
            LET s == Called(inv[i], "delete_security_group", sg.id, out) IN
            /\ inv' = [inv EXCEPT ![i] =
                 IF out = "ok" THEN [s EXCEPT !.todo = Tail(@)]
                 ELSE Fail(s, "delete_security_group")]
            /\ aws' = IF out = "ok" THEN [aws EXCEPT !.sgs = @ \ {sg.id}] ELSE aws
  /\ UNCHANGED <<reload, locust, env, clock, schedule, prevClean>>

DeleteSecurityGroups(i) ==
  /\ inv[i].pc = "delete_security_groups"
  /\ IF inv[i].todo = <<>>
     THEN inv' = [inv EXCEPT ![i] = At(@, "delete_vpc")] /\ UNCHANGED aws
     ELSE LET sg == Head(inv[i].todo) IN
          IF sg.GroupName = "default"
          THEN inv' = [inv EXCEPT ![i] = [@ EXCEPT !.todo = Tail(@)]] /\ UNCHANGED aws
          ELSE \E out \in Outcomes(sg.id \in aws.sgs) :
                 LET s == Called(inv[i], "delete_security_group", sg.id, out) IN
                 /\ inv' = [inv EXCEPT ![i] =
                      IF out = "ok" THEN [s EXCEPT !.todo = Tail(@)]
                      ELSE Fail(s, "delete_security_group")]
                 /\ aws' = IF out = "ok" THEN [aws EXCEPT !.sgs = @ \ {sg.id}] ELSE aws
  /\ UNCHANGED <<reload, locust, env, clock, schedule, prevClean>>

\* What still hangs on the network: the platform refuses to delete a network
\* that has any.
VpcDependencies ==
  \/ aws.subnets # {}
  \/ aws.rts \ {"rtb-main"} # {}
  \/ aws.sgs \ {"sg-default"} # {}
  \/ aws.igw = "attached"
  \/ \E n \in NatIds : aws.nat[n] \in {"available", "deleting"}

\* lines 352-354, 200: ec2.delete_vpc; the main route table and the default
\* security group go with the network
DeleteVpc(i) ==
  /\ inv[i].pc = "delete_vpc"
  /\ \E out \in (IF aws.vpc /\ VpcDependencies THEN {"error"} ELSE Outcomes(aws.vpc)) :
       LET s == Called(inv[i], "delete_vpc", "vpc", out) IN
       /\ inv' = [inv EXCEPT ![i] =
            IF out = "ok" THEN Succeed(s, "vpc_resources", "after_cleanup")
            ELSE Fail(s, "delete_vpc")]
       /\ aws' = IF out = "ok"
                 THEN [aws EXCEPT !.vpc = FALSE, !.rts = {}, !.sgs = {}]
                 ELSE aws
  /\ UNCHANGED <<reload, locust, env, clock, schedule, prevClean>>

\* -------------------------------------------------------- handler, the end
\* success_count and total_operations of the completion message, lines 409-410
\* (`if v` in place of `if v is True` would count the error text as a success)
SuccessCountTruthy(r) == Cardinality({k \in DOMAIN r : k = "error" \/ r[k]})

SuccessCount(r) == Cardinality({k \in DOMAIN r : k # "error" /\ r[k]})
TotalOperations(r) == Cardinality(DOMAIN r \ {"error"})

\* handler(), lines 46-48, and send_completion_notification(), lines 399-450
SendCompletionNotification(i) ==
  /\ inv[i].pc = "after_cleanup"
  /\ IF ~(env.NOTIFICATION_EMAIL /\ env.sns_topic_arn)
     THEN inv' = [inv EXCEPT ![i] = At(@, "return")]
     ELSE \E out \in {"ok", "error"} :
            LET counts == [success_count |-> SuccessCount(inv[i].results),
                           total_operations |-> TotalOperations(inv[i].results)]
            IN inv' = [inv EXCEPT ![i] =
                 [At(Called(@, "publish", "Cleanup Complete", out), "return")
                    EXCEPT !.summary = counts]]
  /\ UNCHANGED <<reload, locust, env, aws, clock, schedule, prevClean>>

\* handler(), lines 50-57
HandlerReturn(i) ==
  /\ inv[i].pc = "return"
  /\ inv' = [inv EXCEPT ![i] =
       [@ EXCEPT !.pc = "done",
                 !.response = [statusCode |-> 200, message |-> "Cleanup completed",
                               results |-> inv[i].results]]]
  /\ UNCHANGED <<reload, locust, env, aws, clock, schedule, prevClean>>

\* ------------------------------------------------------------ specification
\* The steps of one invocation, after its start.
Run(i) ==
  \/ ShouldCleanupSettings(i) \/ DescribeServices(i) \/ CheckTtlFromTags(i)
  \/ HandlerCheck(i) \/ SendCleanupNotification(i) \/ PerformCleanup(i)
  \/ UpdateService(i) \/ SleepForTasks(i) \/ DeleteService(i) \/ DeleteCluster(i)
  \/ DescribeTargetGroups(i) \/ DeleteLoadBalancer(i) \/ DeleteTargetGroups(i)
  \/ ListObjects(i) \/ DeleteObjects(i) \/ DeleteBucket(i)
  \/ ListResourceRecordSets(i) \/ ChangeResourceRecordSets(i)
  \/ DescribeCertificate(i) \/ DeleteCertificate(i)
  \/ DescribeVpcs(i) \/ DescribeNatGateways(i) \/ DeleteNatGateways(i)
  \/ SleepForNatGateways(i) \/ DescribeAddresses(i) \/ ReleaseAddresses(i)
  \/ DescribeSubnets(i) \/ DeleteSubnets(i)
  \/ DescribeRouteTables(i) \/ DeleteRouteTables(i)
  \/ DescribeInternetGateways(i) \/ DetachInternetGateway(i)
  \/ DeleteInternetGateway(i)
  \/ DescribeSecurityGroups(i) \/ DeleteSecurityGroups(i) \/ DeleteVpc(i)
  \/ SendCompletionNotification(i) \/ HandlerReturn(i)

Next ==
  \/ \E i \in {1} : Start(i) \/ Run(i)
  \/ \E n \in NatIds : NatGatewayGone(n)

Spec == Init /\ [][Next]_vars

\* ======================================================================
\* Properties
\* ======================================================================
\* The platform calls of each teardown step, in the order of perform_cleanup():
\* compute, load balancer, bucket, DNS records, certificate, network.
StepOps ==
  << {"update_service", "delete_service", "delete_cluster"},
     {"describe_target_groups", "delete_load_balancer", "delete_target_group"},
     {"list_objects_v2", "delete_objects", "delete_bucket"},
     {"list_resource_record_sets", "change_resource_record_sets"},
     {"describe_certificate", "delete_certificate"},
     {"describe_vpcs", "describe_nat_gateways", "delete_nat_gateway",
      "describe_addresses", "release_address", "describe_subnets", "delete_subnet",
      "describe_route_tables", "delete_route_table", "describe_internet_gateways",
      "detach_internet_gateway", "delete_internet_gateway",
      "describe_security_groups", "delete_security_group", "delete_vpc"} >>

StepNumbers == DOMAIN StepOps

\* The step a call belongs to; 0 for the calls of the TTL check and the
\* notifications.
StepOf(op) ==
  IF \E k \in StepNumbers : op \in StepOps[k]
  THEN CHOOSE k \in StepNumbers : op \in StepOps[k]
  ELSE 0

\* The step issues platform calls under this deployment.
StepConfigured ==
  << env.CLUSTER_NAME /\ env.SERVICE_NAME, env.ALB_ARN, env.CONFIG_BUCKET,
     env.CUSTOM_DOMAIN /\ env.HOSTED_ZONE_ID, env.CERTIFICATE_ARN, env.VPC_ID >>

\* The report entry a call's success or failure bears on.
KindOf(op) ==
  CASE op \in {"update_service", "delete_service"} -> "ecs_service"
    [] op = "delete_cluster" -> "ecs_cluster"
    [] op \in {"describe_target_groups", "delete_load_balancer"} -> "load_balancer"
    [] op = "delete_target_group" -> "target_groups"
    [] op \in StepOps[3] -> "s3_bucket"
    [] op \in StepOps[4] -> "route53_records"
    [] op \in StepOps[5] -> "ssl_certificate"
    [] OTHER -> "vpc_resources"

\* Calls that change the platform.
MutatingOps ==
  {"update_service", "delete_service", "delete_cluster", "delete_load_balancer",
   "delete_target_group", "delete_objects", "delete_bucket",
   "change_resource_record_sets", "delete_certificate", "delete_nat_gateway",
   "release_address", "delete_subnet", "delete_route_table",
   "detach_internet_gateway", "delete_internet_gateway", "delete_security_group",
   "delete_vpc"}

Calls(i) == inv[i].calls
CallIndex(i) == DOMAIN inv[i].calls
Issued(i, op) == \E n \in CallIndex(i) : Calls(i)[n].op = op
Answered(i, op, res) ==
  \E n \in CallIndex(i) : Calls(i)[n].op = op /\ Calls(i)[n].res = res

\* A teardown call that failed: the platform answered with an error or with
\* not-found.
StepFailure(c) == StepOf(c.op) > 0 /\ c.res \in {"error", "notfound"}

\* perform_cleanup() has returned in invocation i.
CleanupReturned(i) ==
  /\ inv[i].pc \in {"after_cleanup", "return", "done"}
  /\ inv[i].expired

\* handler() returned the report of a teardown.
Reported(i) ==
  /\ inv[i].pc = "done"
  /\ inv[i].response.statusCode = 200
  /\ inv[i].response.message = "Cleanup completed"

NotExpiredResponse == [statusCode |-> 200, message |-> "TTL not expired"]

\* C1: in perform_cleanup no step failure aborts the sequence: after a call of
\* some step failed, every later configured step is still executed.
C1_NoStepFailureAborts ==
  \A i \in Inv :
    CleanupReturned(i) =>
      \A n \in CallIndex(i) :
        StepFailure(Calls(i)[n]) =>
          \A k \in StepNumbers :
            (k > StepOf(Calls(i)[n].op) /\ StepConfigured[k]) =>
              \E m \in CallIndex(i) : Calls(i)[m].op \in StepOps[k]

\* C2: a not-found answer of the platform is recorded as a success of that
\* step, never as a failure, and the run goes on without a top-level error.
C2_NotFoundIsSuccess ==
  \A i \in Inv :
    CleanupReturned(i) =>
      \A n \in CallIndex(i) :
        (StepOf(Calls(i)[n].op) > 0 /\ Calls(i)[n].res = "notfound") =>
          /\ inv[i].results[KindOf(Calls(i)[n].op)]
          /\ "error" \notin DOMAIN inv[i].results

\* C3: the second of two invocations in succession, the first of which removed
\* every resource, returns a report without a top-level error in which every
\* configured step is a success, when the platform answers its calls with
\* nothing worse than not-found.
C3_SecondPassClean ==
  \A i \in Inv :
    (inv[i].pc = "done" /\ prevClean /\ ~\E n \in CallIndex(i) : Calls(i)[n].res = "error") =>
      /\ Reported(i)
      /\ "error" \notin DOMAIN inv[i].results
      /\ \A k \in StepNumbers :
           StepConfigured[k] =>
             \A op \in StepOps[k] : inv[i].results[KindOf(op)]

\* The lease as the platform holds it when the TTL check reads it.
TtlHours == ParseTtlHours(env.TTL_HOURS)
SettingsComplete ==
  env.CLUSTER_NAME /\ env.SERVICE_NAME /\ TtlHours.ok /\ TtlHours.val # 0

\* The service descriptor can be read and carries a creation time.
CreationTimeKnown ==
  aws.cluster /\ aws.service.exists /\ aws.service.createdAt # NoTime

\* The load balancer carries a TTLExpiry tag that parses to an aware instant.
TagKnown ==
  /\ env.ALB_ARN /\ aws.alb.exists
  /\ ParseTagValue(aws.alb.tag).ok /\ ParseTagValue(aws.alb.tag).aware

\* An expiry instant is resolved from the creation time, or else from the tag.
ExpiryFromCreation == SettingsComplete /\ CreationTimeKnown
ExpiryFromTag ==
  /\ SettingsComplete /\ aws.cluster /\ aws.service.exists
  /\ aws.service.createdAt = NoTime /\ TagKnown
CreationExpiry == aws.service.createdAt + TtlHours.val
TagExpiry == ParseTagValue(aws.alb.tag).t

\* The lease is defined and its expiry lies in the future.
LeaseNotExpired ==
  \/ ExpiryFromCreation /\ clock < CreationExpiry
  \/ ExpiryFromTag /\ clock < TagExpiry

\* should_cleanup() has returned in invocation i.
Checked(i) == inv[i].pc \notin {"idle", "should_cleanup", "describe_services",
                                "check_ttl_from_tags"}

\* C4: an invocation with force_destroy = true runs the teardown whatever the
\* TTL state, even when the lease expires in the future: its TTL check returns
\* true and it ends with a teardown report.
C4_ForceDestroyRuns ==
  \A i \in Inv :
    (inv[i].event.force_destroy /\ LeaseNotExpired /\ Checked(i)) =>
      /\ inv[i].expired
      /\ inv[i].pc = "done" => Reported(i)

\* C5 as stated: whenever no expiry instant can be resolved (no creation time
\* with TTL hours, no TTLExpiry tag), should_cleanup returns false.
C5_UndefinedLeaseNeverExpires ==
  \A i \in Inv :
    (inv[i].pc = "handler_check" /\ ~(SettingsComplete /\ CreationTimeKnown) /\ ~TagKnown) =>
      ~inv[i].expired

TagConsulted(i) == Issued(i, "describe_tags")

\* C7: the TTLExpiry tag is consulted only when no creation time with TTL
\* hours is available, and whenever none is available the tag that the load
\* balancer carries is consulted.
C7_TagConsultedIffNoCreationTime ==
  \A i \in Inv :
    inv[i].pc = "handler_check" =>
      /\ TagConsulted(i) => ~(SettingsComplete /\ CreationTimeKnown)
      /\ (~(SettingsComplete /\ CreationTimeKnown) /\ TagKnown) => TagConsulted(i)

C9_NatBeforeVpcAndLbBeforeTargetGroups ==
  \A i \in Inv :
    \A m \in CallIndex(i) :
      /\ Calls(i)[m].op = "delete_vpc" =>
           /\ \E n \in 1..(m - 1) : Calls(i)[n].op = "describe_nat_gateways"
           /\ \A n \in CallIndex(i) : Calls(i)[n].op = "delete_nat_gateway" => n < m
      /\ Calls(i)[m].op = "delete_target_group" =>
           \E n \in 1..(m - 1) :
             Calls(i)[n].op = "delete_load_balancer" /\ Calls(i)[n].res = "ok"

\* C9 witness: a run that deleted a NAT gateway, a target group and the
\* network.
C9_Witness ==
  \E i \in Inv :
    /\ Answered(i, "delete_nat_gateway", "ok")
    /\ Answered(i, "delete_target_group", "ok")
    /\ Answered(i, "delete_vpc", "ok")

\* A teardown call whose error perform_cleanup() catches at lines 204-206: not
\* the release of an address (logged, line 307) nor a certificate that is gone
\* (line 267).
Raised(c) ==
  /\ StepFailure(c)
  /\ c.op # "release_address"
  /\ ~(c.op \in StepOps[5] /\ c.res = "notfound")

AtNotification(i) == inv[i].pc \in {"send_cleanup_notification", "after_cleanup"}

\* C11: a notification step, whether its publish succeeds, fails or is left
\* out for want of a topic, leaves the report, the response and the platform
\* as they are and hands over to the same next step: the start notification
\* to perform_cleanup, the completion notification to the return of the
\* report.  (The error notification is never dispatched: no exception reaches
\* handler()'s except clause.)
C11_PublishFailureSwallowed ==
  [][\A i \in Inv :
       (AtNotification(i) /\ inv'[i] # inv[i]) =>
         /\ inv'[i].results = inv[i].results
         /\ inv'[i].response = inv[i].response
         /\ aws' = aws
         /\ inv'[i].pc = IF inv[i].pc = "send_cleanup_notification"
                         THEN "perform_cleanup" ELSE "return"]_vars

\* C11 witness: both publishes failed, the service was deleted all the same
\* and the handler returned the report.
C11_Witness ==
  \E i \in Inv :
    /\ Reported(i)
    /\ \E n \in CallIndex(i) :
         Calls(i)[n] = [op |-> "publish", arg |-> "Cleanup Starting", res |-> "error"]
    /\ \E n \in CallIndex(i) :
         Calls(i)[n] = [op |-> "publish", arg |-> "Cleanup Complete", res |-> "error"]
    /\ inv[i].results.ecs_service
    /\ inv[i].response.results = inv[i].results

\* The notifications invocation i dispatched with the given subject.
Dispatched(i, subject) ==
  {n \in CallIndex(i) : Calls(i)[n].op = "publish" /\ Calls(i)[n].arg = subject}

\* The deletion calls of invocation i.
Deletions(i) == {n \in CallIndex(i) : Calls(i)[n].op \in MutatingOps}

\* C12: an invocation on an expired lease with notifications configured
\* dispatches the start notification before its first deletion call, and
\* after its last deletion call exactly one closing notification: the error
\* notification ("Cleanup FAILED") when the teardown ended with an error, the
\* completed one otherwise.
C12_StartThenOneClosingNotification ==
  \A i \in Inv :
    (inv[i].pc = "done" /\ inv[i].expired
       /\ env.NOTIFICATION_EMAIL /\ env.sns_topic_arn) =>
      /\ \E s \in Dispatched(i, "Cleanup Starting") : \A n \in Deletions(i) : s < n
      /\ LET closing == IF "error" \in DOMAIN inv[i].results
                        THEN "Cleanup FAILED" ELSE "Cleanup Complete"
             other == IF "error" \in DOMAIN inv[i].results
                      THEN "Cleanup Complete" ELSE "Cleanup FAILED"
         IN /\ Cardinality(Dispatched(i, closing)) = 1
            /\ Dispatched(i, other) = {}
            /\ \A c \in Dispatched(i, closing) : \A n \in Deletions(i) : n < c

\* The identifiers should_cleanup() requires before anything else (line 72).
RequiredIdentifiers == env.CLUSTER_NAME /\ env.SERVICE_NAME

\* C13: a run whose configuration lacks a required identifier (cluster or
\* service name) issues no deletion call and ends as an error: an error status,
\* not the not-expired skip nor a success, and no report in the response.
C13_MissingIdentifierIsAnError ==
  \A i \in Inv :
    ~RequiredIdentifiers =>
      /\ Deletions(i) = {}
      /\ inv[i].pc = "done" =>
           /\ inv[i].response.statusCode >= 400
           /\ "results" \notin DOMAIN inv[i].response

\* C14: once perform_cleanup has returned, whichever call failed, the report
\* holds every resource kind, the kind of every call attempted among them,
\* with a boolean outcome, and the handler returns that report; the counts of
\* the completed notification are the number of kinds the report holds as
\* successful and the number of kinds in it, the top-level error left out.
C14_ReportEnumeratesKindsAndCounts ==
  \A i \in Inv :
    CleanupReturned(i) =>
      /\ DOMAIN inv[i].results \ {"error"} = ResultKeys
      /\ \A k \in ResultKeys : inv[i].results[k] \in BOOLEAN
      /\ \A n \in CallIndex(i) :
           StepOf(Calls(i)[n].op) > 0 => KindOf(Calls(i)[n].op) \in DOMAIN inv[i].results
      /\ inv[i].pc = "done" => inv[i].response.results = inv[i].results
      /\ Dispatched(i, "Cleanup Complete") # {} =>
           /\ inv[i].summary.success_count =
                Cardinality({k \in ResultKeys : inv[i].results[k]})
           /\ inv[i].summary.total_operations =
                Cardinality(DOMAIN inv[i].results \ {"error"})

\* C14 witness: the load balancer delete failed after the compute step went
\* through; the notification counts 2 of 8.
C14_Witness ==
  \E i \in Inv :
    /\ inv[i].pc = "done"
    /\ Answered(i, "delete_load_balancer", "error")
    /\ "error" \in DOMAIN inv[i].results
    /\ Dispatched(i, "Cleanup Complete") # {}
    /\ inv[i].summary = [success_count |-> 2, total_operations |-> 8]

\* ------------------------------------------------- concurrent invocations
\* Two triggers fire on the same expired, fully configured stack: nothing in
\* handler() keeps a second invocation from starting while the first runs.
\* The expiry comes from the service's creation time or, without one, from
\* the load balancer's tag.
ConcurrentDeployments ==
  { [env |-> FullEnv,
     aws |-> [FullPlatform EXCEPT !.bucket.objs = PageSize, !.service.createdAt = c],
     clock |-> MaxNow,
     schedule |-> <<Scheduled, Scheduled>>] : c \in {NoTime, 1} }

InitConcurrent ==
  /\ \E d \in ConcurrentDeployments :
       /\ env = d.env
       /\ aws = d.aws
       /\ clock = d.clock
       /\ schedule = d.schedule
  /\ prevClean = FALSE
  /\ inv = [i \in Inv |-> Idle]
  /\ reload = "off"
  /\ locust = "off"

NextConcurrent ==
  \/ \E i \in Inv : Invoke(i) \/ Run(i)
  \/ \E n \in NatIds : NatGatewayGone(n)

SpecConcurrent == InitConcurrent /\ [][NextConcurrent]_vars

\* No call of invocation i met a platform error other than not-found.
NoPlatformError(i) == \A n \in CallIndex(i) : Calls(i)[n].res # "error"

\* C15: when two concurrent invocations on the same expired stack have both
\* returned, and the platform raised nothing but not-found, every configured
\* resource is deleted and neither invocation skipped the teardown or recorded
\* a failure.
C15_ConcurrentInvocationsBothClean ==
  (/\ \A i \in Inv : inv[i].pc = "done" /\ NoPlatformError(i)
   /\ \A n \in NatIds : aws.nat[n] = "deleted")
  => /\ StackGone
     /\ \A i \in Inv : Reported(i) /\ "error" \notin DOMAIN inv[i].results

\* ------------------------------------------------------ repeated invocation
\* The schedule fires again and again on one expired, fully configured stack;
\* the host may end an invocation at any point of its run.
RetryDeployments ==
  { [env |-> FullEnv,
     aws |-> [FullPlatform EXCEPT !.bucket.objs = PageSize, !.service.createdAt = c],
     clock |-> MaxNow,
     schedule |-> <<>>] : c \in {NoTime, 1} }

InitRetry ==
  /\ \E d \in RetryDeployments :
       /\ env = d.env
       /\ aws = d.aws
       /\ clock = d.clock
       /\ schedule = d.schedule
  /\ prevClean = FALSE
  /\ inv = [i \in Inv |-> Idle]
  /\ reload = "off"
  /\ locust = "off"

\* The next tick of the schedule invokes handler() anew.
Tick(i) ==
  /\ inv[i].pc \in {"idle", "done"}
  /\ inv' = [inv EXCEPT ![i] = [Idle EXCEPT !.pc = "should_cleanup"]]
  /\ prevClean' = (inv[i].pc = "done" /\ StackGone)
  /\ UNCHANGED <<reload, locust, env, aws, clock, schedule>>

\* The host's timeout ends the invocation where it stands; no response.
HostTimeout(i) ==
  /\ inv[i].pc \notin {"idle", "done"}
  /\ inv' = [inv EXCEPT ![i] = [@ EXCEPT !.pc = "done", !.response = [statusCode |-> 0]]]
  /\ UNCHANGED <<reload, locust, env, aws, clock, schedule, prevClean>>

NextRetry ==
  \/ \E i \in {1} : Tick(i) \/ Run(i) \/ HostTimeout(i)
  \/ \E n \in NatIds : NatGatewayGone(n)

SpecRetry == InitRetry /\ [][NextRetry]_vars /\ WF_vars(NextRetry)

\* An invocation has run to its response without a platform error other than
\* not-found.
RanClean(i) ==
  /\ inv[i].pc = "done"
  /\ inv[i].response.statusCode = 200
  /\ NoPlatformError(i)

\* C16: under repeated invocation of an expired stack, if again and again an
\* invocation runs to its response with the platform raising nothing but
\* not-found, then, wherever earlier invocations stopped, every configured
\* resource is eventually deleted.
C16_RetryCompletesTeardown ==
  ([]<>RanClean(1)) => <>StackGone

\* The sub-step of cleanup_vpc_resources() a logged call belongs to, in the
\* order of lines 283-354; 0 for every other call.
VpcSubStep(c) ==
  CASE c.op \in {"describe_nat_gateways", "delete_nat_gateway"} -> 1
    [] c.op = "sleep" /\ c.arg = "60" -> 2
    [] c.op \in {"describe_addresses", "release_address"} -> 3
    [] c.op \in {"describe_subnets", "delete_subnet"} -> 4
    [] c.op \in {"describe_route_tables", "delete_route_table"} -> 5
    [] c.op \in {"describe_internet_gateways", "detach_internet_gateway",
                 "delete_internet_gateway"} -> 6
    [] c.op \in {"describe_security_groups", "delete_security_group"} -> 7
    [] c.op = "delete_vpc" -> 8
    [] OTHER -> 0

\* C17: within the network teardown the calls come in the order NAT gateways,
\* settle wait, addresses, subnets, route tables, internet gateway, security
\* groups, network: every call of a sub-step directly follows a call of the
\* same sub-step or of the one before it (the first follows describe_vpcs), the
\* main route table and the default security group are never deleted, and an
\* internet gateway is deleted right after its detach succeeded.
C17_VpcSubStepsInOrder ==
  \A i \in Inv :
    \A n \in CallIndex(i) :
      LET c == Calls(i)[n]
          k == VpcSubStep(c)
      IN k > 0 =>
           /\ n > 1
           /\ IF k = 1 /\ c.op = "describe_nat_gateways"
              THEN Calls(i)[n - 1].op = "describe_vpcs"
              ELSE VpcSubStep(Calls(i)[n - 1]) \in {k - 1, k} \ {0}
           /\ c.op = "delete_route_table" => c.arg # "rtb-main"
           /\ c.op = "delete_security_group" => c.arg # "sg-default"
           /\ c.op = "delete_internet_gateway" =>
                Calls(i)[n - 1] =
                  [op |-> "detach_internet_gateway", arg |-> c.arg, res |-> "ok"]

\* C17 witness: a network teardown that went through every sub-step.
C17_Witness ==
  \E i \in Inv :
    /\ Answered(i, "release_address", "ok")
    /\ Answered(i, "delete_subnet", "ok")
    /\ Answered(i, "delete_route_table", "ok")
    /\ Answered(i, "delete_internet_gateway", "ok")
    /\ Answered(i, "delete_security_group", "ok")
    /\ Answered(i, "delete_vpc", "ok")

\* C18: when a call of a sub-step before the network delete failed, the
\* network delete is attempted all the same, and when it fails the report
\* holds the failure.
C18_VpcDeleteAttemptedAfterSubStepFailure ==
  \A i \in Inv :
    (/\ CleanupReturned(i)
     /\ \E n \in CallIndex(i) :
          /\ VpcSubStep(Calls(i)[n]) \in 1..7
          /\ Calls(i)[n].res \in {"error", "notfound"})
    => /\ Issued(i, "delete_vpc")
       /\ ~Answered(i, "delete_vpc", "ok") =>
            ("error" \in DOMAIN inv[i].results /\ ~inv[i].results.vpc_resources)

\* C19: in the compute step the drain wait directly follows the call that set
\* the desired count to zero, the service delete directly follows the wait,
\* and the cluster delete directly follows a service delete that succeeded: it
\* is never issued after a service delete that failed.
C19_ComputeCallsInDependencyOrder ==
  \A i \in Inv :
    \A n \in CallIndex(i) :
      LET c == Calls(i)[n] IN
      /\ (c.op = "sleep" /\ c.arg = "30") =>
           (n > 1 /\ Calls(i)[n - 1] =
                       [op |-> "update_service", arg |-> "service", res |-> "ok"])
      /\ c.op = "delete_service" =>
           (n > 1 /\ Calls(i)[n - 1] = [op |-> "sleep", arg |-> "30", res |-> "ok"])
      /\ c.op = "delete_cluster" =>
           (n > 1 /\ Calls(i)[n - 1] =
                       [op |-> "delete_service", arg |-> "service", res |-> "ok"])
      /\ (c.op = "update_service" /\ c.res = "ok" /\ aws.service.exists) =>
           aws.service.desired = 0

\* C19 witness: the service delete failed and the teardown has returned.
C19_Witness ==
  \E i \in Inv :
    /\ CleanupReturned(i)
    /\ Answered(i, "delete_service", "error")
    /\ ~Issued(i, "delete_cluster")

\* The service had not drained when the wait ended: the platform refused the
\* service delete or the cluster delete that follow the wait.
NotDrainedAfterWait(i) ==
  /\ \E n \in CallIndex(i) : Calls(i)[n].op = "sleep" /\ Calls(i)[n].arg = "30"
  /\ \/ Answered(i, "delete_service", "error")
     \/ Answered(i, "delete_cluster", "error")

\* C20: when the service has not drained by the end of the bounded wait, the
\* compute step is recorded as failed and the sequence goes on: every later
\* configured step is still executed before perform_cleanup returns.
C20_DrainTimeoutFailsStepAndContinues ==
  \A i \in Inv :
    (CleanupReturned(i) /\ NotDrainedAfterWait(i)) =>
      /\ ~inv[i].results.ecs_cluster
      /\ \A k \in StepNumbers :
           (k > 1 /\ StepConfigured[k]) =>
             \E m \in CallIndex(i) : Calls(i)[m].op \in StepOps[k]

\* The target groups whose delete call failed.
FailedTargetGroups(i) ==
  {Calls(i)[n].arg : n \in {m \in CallIndex(i) :
      Calls(i)[m].op = "delete_target_group" /\ Calls(i)[m].res # "ok"}}

\* C21: when the delete of one target group of the load balancer failed, the
\* teardown has still issued a delete call for every other target group the
\* load balancer had when it returns.
C21_TargetGroupsDeletedIndependently ==
  \A i \in Inv :
    (CleanupReturned(i) /\ FailedTargetGroups(i) # {}) =>
      \A tg \in TargetGroupIds :
        \E n \in CallIndex(i) :
          Calls(i)[n].op = "delete_target_group" /\ Calls(i)[n].arg = tg

\* C22: the bucket delete is called only on an empty bucket: when the
\* invocation is about to call delete_bucket, or has called it, on a bucket
\* that exists, no object is left in it, whatever the number of objects at the
\* start.
C22_BucketEmptyBeforeDelete ==
  \A i \in Inv :
    (aws.bucket.exists /\ (inv[i].pc = "delete_bucket" \/ Issued(i, "delete_bucket"))) =>
      aws.bucket.objs = 0

\* C23: no release call is issued for an address that is associated; a
\* release that failed is followed by the next release or by the subnets
\* sub-step, never by the end of the teardown; and a teardown in which nothing
\* but releases failed ends without an error, the network deleted.
C23_AssociatedSkippedReleaseFailureTolerated ==
  \A i \in Inv :
    /\ \A n \in CallIndex(i) :
         LET c == Calls(i)[n] IN
         c.op = "release_address" =>
           /\ aws.eips[c.arg] # "associated"
           /\ c.res # "ok" =>
                IF n < Len(Calls(i))
                THEN Calls(i)[n + 1].op \in {"release_address", "describe_subnets"}
                ELSE inv[i].pc \in {"release_addresses", "describe_subnets"}
    /\ (CleanupReturned(i) /\ Issued(i, "describe_addresses")
          /\ \A n \in CallIndex(i) : ~Raised(Calls(i)[n])) =>
         ("error" \notin DOMAIN inv[i].results /\ inv[i].results.vpc_resources)

\* C23 witness: the NAT gateway's address was still associated and skipped,
\* the release of a free address failed, and the network was deleted.
C23_Witness ==
  \E i \in Inv :
    /\ Answered(i, "release_address", "error")
    /\ Answered(i, "delete_vpc", "ok")
    /\ ~\E n \in CallIndex(i) :
          Calls(i)[n].op = "release_address" /\ Calls(i)[n].arg = "eip-nat"
    /\ "error" \notin DOMAIN inv[i].results

\* The addresses of the account that belong to another network or stack.
ForeignEips == {"eip-other"}

\* C24: the teardown issues no release call for an address of another network
\* or stack, and no such address ends up released.
C24_OnlyOwnAddressesReleased ==
  /\ \A e \in ForeignEips : aws.eips[e] # "released"
  /\ \A i \in Inv :
       \A n \in CallIndex(i) :
         Calls(i)[n].op = "release_address" => Calls(i)[n].arg \notin ForeignEips

\* C25: no delete call is issued for the main route table or the default
\* security group; and once the sub-steps have gone through to the network
\* delete, a delete call has succeeded for every other route table and every
\* other security group of the network, and the two exempted ones are the
\* only ones left until the network goes.
C25_MainTableAndDefaultGroupKept ==
  \A i \in Inv :
    /\ \A n \in CallIndex(i) :
         /\ Calls(i)[n].op = "delete_route_table" => Calls(i)[n].arg # "rtb-main"
         /\ Calls(i)[n].op = "delete_security_group" => Calls(i)[n].arg # "sg-default"
    /\ (inv[i].pc = "delete_vpc" \/ Issued(i, "delete_vpc")) =>
         /\ \A rt \in RouteTableIds \ {"rtb-main"} :
              \E n \in CallIndex(i) :
                Calls(i)[n] = [op |-> "delete_route_table", arg |-> rt, res |-> "ok"]
         /\ \A sg \in SecurityGroupIds \ {"sg-default"} :
              \E n \in CallIndex(i) :
                Calls(i)[n] = [op |-> "delete_security_group", arg |-> sg, res |-> "ok"]
         /\ aws.vpc => (aws.rts = {"rtb-main"} /\ aws.sgs = {"sg-default"})

\* C25 witness: the sub-steps went through and the network delete is next,
\* the main route table and the default security group still there.
C25_Witness ==
  \E i \in Inv :
    /\ inv[i].pc = "delete_vpc"
    /\ Answered(i, "delete_route_table", "ok")
    /\ Answered(i, "delete_security_group", "ok")
    /\ "rtb-main" \in aws.rts /\ "sg-default" \in aws.sgs

\* Call n of invocation i comes after a successful call of op.
After(i, n, op) ==
  \E m \in 1..(n - 1) : Calls(i)[m].op = op /\ Calls(i)[m].res = "ok"

\* C26: a subnet, security-group or network delete call is issued only after
\* this run deleted the service and the cluster, when they are configured, and
\* the load balancer, when it is configured, the target-groups loop finished.
C26_NetworkAfterComputeAndLoadBalancer ==
  \A i \in Inv :
    \A n \in CallIndex(i) :
      Calls(i)[n].op \in {"delete_subnet", "delete_security_group", "delete_vpc"} =>
        /\ StepConfigured[1] =>
             /\ After(i, n, "delete_service") /\ After(i, n, "delete_cluster")
             /\ inv[i].results.ecs_service /\ inv[i].results.ecs_cluster
        /\ StepConfigured[2] =>
             /\ After(i, n, "delete_load_balancer")
             /\ inv[i].results.load_balancer /\ inv[i].results.target_groups

\* C26 witness: compute and load balancer configured and deleted, then a
\* subnet.
C26_Witness ==
  \E i \in Inv :
    /\ StepConfigured[1] /\ StepConfigured[2]
    /\ Answered(i, "delete_target_group", "ok")
    /\ Answered(i, "delete_subnet", "ok")

\* The call returned to the teardown without raising.
ReturnedWithoutError(c) == c.res \in {"ok", "empty"}

\* The failures the code catches where they occur: a failed address release
\* (lines 304-308) and a certificate that is not found (lines 267-268).
Tolerated(c) ==
  \/ c.op = "release_address"
  \/ c.op \in StepOps[5] /\ c.res = "notfound"

\* During a run an entry of the report that is done stays done, and a
\* recorded error stays.
EntriesOnlyGetDone ==
  \A i \in Inv :
    inv[i].pc \notin {"idle", "done"} =>
      /\ \A k \in ResultKeys : inv[i].results[k] => inv'[i].results[k]
      /\ "error" \in DOMAIN inv[i].results => "error" \in DOMAIN inv'[i].results

\* C27: an entry of the report is done only if every call of its step
\* returned without error, and an entry once done is never changed later in
\* the run.
C27_DoneOnlyAfterEveryCallSucceeded ==
  /\ [](\A i \in Inv : \A n \in CallIndex(i) :
          (StepOf(Calls(i)[n].op) > 0 /\ inv[i].results[KindOf(Calls(i)[n].op)]) =>
            ReturnedWithoutError(Calls(i)[n]))
  /\ [][EntriesOnlyGetDone]_vars

\* C27 amended: an entry of the report is done only if every call of its step
\* returned without error, a failed address release and a certificate reported
\* as not found apart, and an entry once done is never changed later in the
\* run.
C27_DoneOnlyAfterEveryCallSucceededOrTolerated ==
  /\ [](\A i \in Inv : \A n \in CallIndex(i) :
          (StepOf(Calls(i)[n].op) > 0 /\ inv[i].results[KindOf(Calls(i)[n].op)]) =>
            (ReturnedWithoutError(Calls(i)[n]) \/ Tolerated(Calls(i)[n])))
  /\ [][EntriesOnlyGetDone]_vars

\* C27 witness: a report with every entry done after an address release
\* failed.
C27_Witness ==
  \E i \in Inv :
    /\ inv[i].pc = "done"
    /\ Answered(i, "release_address", "error")
    /\ \A k \in ResultKeys : inv[i].results[k]

\* A call of the TTL check raised in invocation i, or a TTL setting it read
\* cannot be parsed: the TTL_HOURS setting, or the TTLExpiry tag it fetched.
TtlCheckFailed(i) ==
  \/ \E n \in CallIndex(i) :
       /\ Calls(i)[n].op \in {"describe_services", "describe_tags"}
       /\ Calls(i)[n].res \in {"error", "notfound"}
  \/ inv[i].pc # "idle" /\ ~TtlHours.ok
  \/ /\ Answered(i, "describe_tags", "ok")
     /\ aws.alb.tag.kind # "none" /\ ~ParseTagValue(aws.alb.tag).ok

\* C28: when a call of the TTL check raises, or the TTL settings cannot be
\* parsed, should_cleanup returns false, and the invocation issues no call that
\* changes the platform, sends no notification and ends with the not-expired
\* result.
C28_TtlCheckFailsSafe ==
  \A i \in Inv :
    (TtlCheckFailed(i) /\ Checked(i)) =>
      /\ ~inv[i].expired
      /\ \A n \in CallIndex(i) : Calls(i)[n].op \notin MutatingOps \cup {"publish"}
      /\ inv[i].pc = "done" => inv[i].response = NotExpiredResponse

\* C28 witness: describe_services raised for a stack whose lease is over, and
\* the invocation ended.
C28_Witness ==
  \E i \in Inv :
    /\ inv[i].pc = "done"
    /\ Answered(i, "describe_services", "error")
    /\ ExpiryFromCreation /\ clock >= CreationExpiry
    /\ env.NOTIFICATION_EMAIL

\* ======================================================================
\* The config reload Lambda (terraform/modules/automock-s3/scripts/
\* config_reload.py): handler(event, context) walks the records of an S3
\* event; every S3 and ECS call is one step.
\* ======================================================================
MaxRecords == 2    \* records one S3 event carries: 0..MaxRecords

\* The variables of the TTL cleanup, which the other two programs leave alone.
cleanupVars == <<env, aws, clock, schedule, prevClean, inv>>

\* The object keys of the bucket: the expectations, and what the function
\* itself writes next to them.
ObjectKeys == {"expectations.json", "versions/expectations-v1.json",
               "project-metadata.json"}

\* record['eventName'], as its segments between the colons
EventNames == {<<"ObjectCreated", "Put">>, <<"ObjectRemoved", "Delete">>,
               <<"ObjectRestore", "Post">>}

\* event_name.startswith(prefix), for a prefix that is a whole first segment
StartsWith(event_name, prefix) == event_name[1] = prefix

\* What json.loads() makes of the stored expectations.
Contents == {"array", "object", "invalid"}

EventRecords == [key : ObjectKeys, eventName : EventNames]

\* event.get('Records', [])
Events ==
  UNION { [1..n -> EventRecords] : n \in 0..MaxRecords }

\* The function as deployed, invoked with an event.
InitReload ==
  /\ env = FullEnv /\ aws = FullPlatform /\ clock = 0 /\ schedule = <<>>
  /\ prevClean = FALSE
  /\ inv = [i \in Inv |-> Idle]
  /\ locust = "off"
  /\ \E c \in BOOLEAN, s \in BOOLEAN, x \in Contents, e \in Events :
       reload = [ECS_CLUSTER_ARN |-> c, ECS_SERVICE_NAME |-> s,
                 content |-> x, event |-> e, idx |-> 1, pc |-> "records",
                 calls |-> <<>>, results |-> <<>>, statusCode |-> 0]

\* A call the function issued for the record it is at, and its answer.
ReloadCalled(s, op, res) ==
  [s EXCEPT !.calls = Append(@, [op |-> op, rec |-> s.idx, res |-> res])]

\* The loop of handler() goes on to the next record; `result` is what the
\* record came to.
NextRecord(s, result) ==
  [s EXCEPT !.results = Append(@, result), !.idx = @ + 1, !.pc = "records"]

\* handler(), lines 28-45: one record of the event
ReloadHandler ==
  /\ reload.pc = "records"
  /\ reload.idx <= Len(reload.event)
  /\ LET record == reload.event[reload.idx] IN
       reload' =
         IF record.key = "expectations.json"
         THEN IF StartsWith(record.eventName, "ObjectCreated")
              THEN [reload EXCEPT !.pc = "handle_config_update"]
              ELSE IF StartsWith(record.eventName, "ObjectRemoved")
                   THEN [reload EXCEPT !.pc = "handle_config_removal"]
                   ELSE NextRecord(reload, "ignored")
         ELSE NextRecord(reload, "ignored")
  /\ UNCHANGED <<cleanupVars, locust>>

\* handler(), lines 47-50: the records are through
ReloadReturn ==
  /\ reload.pc = "records"
  /\ reload.idx > Len(reload.event)
  /\ reload' = [reload EXCEPT !.pc = "done", !.statusCode = 200]
  /\ UNCHANGED <<cleanupVars, locust>>

\* handle_config_update(), lines 65-72: the settings
HandleConfigUpdate ==
  /\ reload.pc = "handle_config_update"
  /\ reload' =
       IF ~reload.ECS_CLUSTER_ARN \/ ~reload.ECS_SERVICE_NAME
       THEN NextRecord(reload, "skipped")
       ELSE [reload EXCEPT !.pc = "get_object"]
  /\ UNCHANGED <<cleanupVars, locust>>

\* handle_config_removal(), lines 125-137
HandleConfigRemoval ==
  /\ reload.pc = "handle_config_removal"
  /\ reload' = NextRecord(reload, "deleted")
  /\ UNCHANGED <<cleanupVars, locust>>

\* handle_config_update(), lines 78-87 and 117-123: fetch and validate
\* (a variant without the isinstance check of lines 83-84)
ValidateExpectationsAnyJson ==
  /\ reload.pc = "get_object"
  /\ \E out \in {"ok", "error"} :
       LET s == ReloadCalled(reload, "get_object", out) IN
       reload' =
         IF out # "ok" \/ reload.content = "invalid"
         THEN NextRecord(s, "failed")
         ELSE [s EXCEPT !.pc = "list_objects_v2"]
  /\ UNCHANGED <<cleanupVars, locust>>

ValidateExpectations ==
  /\ reload.pc = "get_object"
  /\ \E out \in {"ok", "error"} :
       LET s == ReloadCalled(reload, "get_object", out) IN
       reload' =
         IF out # "ok" \/ reload.content = "invalid" \/ reload.content # "array"
         THEN NextRecord(s, "failed")
         ELSE [s EXCEPT !.pc = "list_objects_v2"]
  /\ UNCHANGED <<cleanupVars, locust>>

\* create_version_backup(), lines 147-168: the next version number, 1 when
\* the listing fails
ListVersions ==
  /\ reload.pc = "list_objects_v2"
  /\ \E out \in {"ok", "error"} :
       reload' = [ReloadCalled(reload, "list_objects_v2", out)
                    EXCEPT !.pc = "put_object"]
  /\ UNCHANGED <<cleanupVars, locust>>

\* create_version_backup(), lines 171-189: a failed backup does not fail the
\* update
PutVersion ==
  /\ reload.pc = "put_object"
  /\ \E out \in {"ok", "error"} :
       reload' = [ReloadCalled(reload, "put_object", out)
                    EXCEPT !.pc = "update_service"]
  /\ UNCHANGED <<cleanupVars, locust>>

\* handle_config_update(), lines 95-123: ecs.update_service with
\* forceNewDeployment; a raised error is caught at line 121, and after an
\* answer line 105 reads the name `context`, which this function does not
\* have: the NameError is caught at line 121 as well
ForceNewDeployment ==
  /\ reload.pc = "update_service"
  /\ \E out \in {"ok", "error"} :
       reload' = NextRecord(ReloadCalled(reload, "update_service", out), "failed")
  /\ UNCHANGED <<cleanupVars, locust>>

NextReload ==
  \/ ReloadHandler
  \/ ReloadReturn
  \/ HandleConfigUpdate
  \/ HandleConfigRemoval
  \/ ValidateExpectations
  \/ ListVersions
  \/ PutVersion
  \/ ForceNewDeployment

SpecReload == InitReload /\ [][NextReload]_vars

\* The record is an upload of the expectations, the service is configured and
\* the stored content is a JSON array.
Reloadable(record) ==
  /\ record.key = "expectations.json"
  /\ StartsWith(record.eventName, "ObjectCreated")
  /\ reload.ECS_CLUSTER_ARN /\ reload.ECS_SERVICE_NAME
  /\ reload.content = "array"

\* C29: a service update is issued only for a record whose key is exactly
\* expectations.json, whose event name starts with ObjectCreated, with cluster
\* and service configured and a stored content that parses as a JSON array;
\* every other record gets no update, and the handler goes on through the
\* remaining records to its normal return.
C29_ReloadOnlyForValidExpectationsUpload ==
  /\ \A n \in DOMAIN reload.calls :
       reload.calls[n].op = "update_service" =>
         Reloadable(reload.event[reload.calls[n].rec])
  /\ Len(reload.results) = reload.idx - 1
  /\ reload.pc = "done" =>
       /\ reload.statusCode = 200
       /\ Len(reload.results) = Len(reload.event)

\* C29 witness: after a record that is no upload of the expectations, the
\* next one got its service update, and the handler returned.
C29_Witness ==
  /\ reload.pc = "done"
  /\ Len(reload.event) = 2
  /\ ~Reloadable(reload.event[1])
  /\ \E n \in DOMAIN reload.calls :
       reload.calls[n].op = "update_service" /\ reload.calls[n].rec = 2

\* ======================================================================
\* The load test (internal/client/templates/locustfile.py): the users the
\* runner spawns each run on_start(); every statement that reads or writes
\* a module global is one step, and the users' steps interleave freely.
\* ======================================================================
MaxUsers == 3      \* users the runner spawns: 1..MaxUsers
MaxRows == 2       \* rows of USER_DATA: 0..MaxRows

Users == 1..MaxUsers
NoUser == 0
NoRow == -1

\* data_assignment of the configuration
Assignments == {"round_robin", "shared", "random"}

\* (AUTH.get("mode") or "none").lower()
AuthModes == {"none", "per_user", "shared"}

\* _SHARED_TOKEN = None, self._token = None
NoToken == 0

\* The token _do_auth() returns to _on_test_start(), lines 255-257; the token
\* it returns to user u is u.
TestStartToken == MaxUsers + 1

\* A user the runner has spawned, before on_start().
Spawned == [pc |-> "on_start", idx |-> NoRow, user_index |-> NoRow, data |-> NoRow,
            token |-> NoToken, tok |-> NoToken]

\* The configurations of a load test: every data assignment without
\* authentication, and every authentication mode with one row of data. host
\* says that a host is known (AM_HOST or the class attribute); the shared
\* token is there at the start when _on_test_start() obtained it, which takes
\* a host.
LoadTests ==
  { [USER_DATA |-> rows, DATA_ASSIGNMENT |-> a, DATA_SHARED_INDEX |-> x,
     mode |-> "none", host |-> FALSE, SHARED_TOKEN |-> NoToken] :
    rows \in 0..MaxRows, a \in Assignments, x \in 0..MaxRows }
  \cup
  { t \in [USER_DATA : {1}, DATA_ASSIGNMENT : {"round_robin"},
           DATA_SHARED_INDEX : {0}, mode : AuthModes \ {"none"},
           host : BOOLEAN, SHARED_TOKEN : {NoToken, TestStartToken}] :
    t.SHARED_TOKEN = TestStartToken => (t.mode = "shared" /\ t.host) }

\* The module as loaded (lines 29-47, 177-178) after _on_test_start(), and
\* the users as spawned.  requests and stores record the shared
\* authentication requests issued, each with the shared token as it was
\* then, and the users that assigned _SHARED_TOKEN.
InitLocust ==
  /\ env = FullEnv /\ aws = FullPlatform /\ clock = 0 /\ schedule = <<>>
  /\ prevClean = FALSE
  /\ inv = [i \in Inv |-> Idle]
  /\ reload = "off"
  /\ \E t \in LoadTests :
       locust = [USER_DATA |-> t.USER_DATA, DATA_ASSIGNMENT |-> t.DATA_ASSIGNMENT,
                 DATA_SHARED_INDEX |-> t.DATA_SHARED_INDEX,
                 USER_COUNTER |-> 0, DATA_LOCK |-> NoUser,
                 mode |-> t.mode, host |-> t.host,
                 SHARED_TOKEN |-> t.SHARED_TOKEN, SHARED_TOKEN_LOCK |-> NoUser,
                 requests |-> <<>>, stores |-> <<>>,
                 users |-> [u \in Users |-> Spawned]]

\* The local state of user u.
User(u) == locust.users[u]

\* _claim_user_index(), line 114: with _DATA_LOCK, entered
\* (a variant that enters without waiting for the lock)
ClaimUserIndexUnlocked(u) ==
  /\ User(u).pc = "on_start"
  /\ locust' = [locust EXCEPT !.DATA_LOCK = u, !.users[u].pc = "read"]
  /\ UNCHANGED <<cleanupVars, reload>>

ClaimUserIndexAcquire(u) ==
  /\ User(u).pc = "on_start"
  /\ locust.DATA_LOCK = NoUser
  /\ locust' = [locust EXCEPT !.DATA_LOCK = u, !.users[u].pc = "read"]
  /\ UNCHANGED <<cleanupVars, reload>>

\* _claim_user_index(), line 115: idx = _USER_COUNTER
ClaimUserIndexRead(u) ==
  /\ User(u).pc = "read"
  /\ locust' = [locust EXCEPT !.users[u].idx = locust.USER_COUNTER,
                              !.users[u].pc = "increment"]
  /\ UNCHANGED <<cleanupVars, reload>>

\* _claim_user_index(), line 116: _USER_COUNTER += 1
ClaimUserIndexIncrement(u) ==
  /\ User(u).pc = "increment"
  /\ locust' = [locust EXCEPT !.USER_COUNTER = @ + 1,
                              !.users[u].pc = "return"]
  /\ UNCHANGED <<cleanupVars, reload>>

\* _claim_user_index(), line 117, and on_start(), line 308: the lock is
\* left, self._user_index = idx
ClaimUserIndexReturn(u) ==
  /\ User(u).pc = "return"
  /\ locust' = [locust EXCEPT
       !.DATA_LOCK = IF @ = u THEN NoUser ELSE @,
       !.users[u].user_index = User(u).idx,
       !.users[u].pc = "assign"]
  /\ UNCHANGED <<cleanupVars, reload>>

\* _assign_user_data(user_index), lines 119-127: the rows it can return
AssignUserData(user_index) ==
  IF locust.USER_DATA = 0 THEN {NoRow}
  ELSE IF locust.DATA_ASSIGNMENT = "shared"
       THEN {locust.DATA_SHARED_INDEX % locust.USER_DATA}
       ELSE IF locust.DATA_ASSIGNMENT = "random"
            THEN 0..(locust.USER_DATA - 1)
            ELSE {user_index % locust.USER_DATA}

\* on_start(), line 309: self._data = _assign_user_data(self._user_index)
OnStartAssign(u) ==
  /\ User(u).pc = "assign"
  /\ \E row \in AssignUserData(User(u).user_index) :
       locust' = [locust EXCEPT !.users[u].data = row, !.users[u].pc = "auth"]
  /\ UNCHANGED <<cleanupVars, reload>>

\* on_start(), lines 310 and 315-319: which authentication the user does; the
\* shared token is read here without the lock
OnStartAuth(u) ==
  /\ User(u).pc = "auth"
  /\ locust' = [locust EXCEPT !.users[u].pc =
       IF locust.mode = "per_user" THEN "per_user_auth"
       ELSE IF locust.mode = "shared" /\ locust.SHARED_TOKEN = NoToken /\ locust.host
            THEN "shared_token_lock"
            ELSE "started"]
  /\ UNCHANGED <<cleanupVars, reload>>

\* on_start(), lines 311-312: self._token = _do_auth(self.client, ctx), a
\* token or None
PerUserAuth(u) ==
  /\ User(u).pc = "per_user_auth"
  /\ \E tok \in {u, NoToken} :
       locust' = [locust EXCEPT !.users[u].token = tok, !.users[u].pc = "started"]
  /\ UNCHANGED <<cleanupVars, reload>>

\* on_start(), line 320: with _SHARED_TOKEN_LOCK, entered
\* (a variant that enters without waiting for the lock)
SharedTokenUnlocked(u) ==
  /\ User(u).pc = "shared_token_lock"
  /\ locust' = [locust EXCEPT !.SHARED_TOKEN_LOCK = u,
                              !.users[u].pc = "shared_token_check"]
  /\ UNCHANGED <<cleanupVars, reload>>

SharedTokenAcquire(u) ==
  /\ User(u).pc = "shared_token_lock"
  /\ locust.SHARED_TOKEN_LOCK = NoUser
  /\ locust' = [locust EXCEPT !.SHARED_TOKEN_LOCK = u,
                              !.users[u].pc = "shared_token_check"]
  /\ UNCHANGED <<cleanupVars, reload>>

\* on_start(), line 321: if not _SHARED_TOKEN, under the lock; with a token
\* there the lock is left
SharedTokenCheck(u) ==
  /\ User(u).pc = "shared_token_check"
  /\ locust' =
       IF locust.SHARED_TOKEN = NoToken
       THEN [locust EXCEPT !.users[u].pc = "shared_token_auth"]
       ELSE [locust EXCEPT !.SHARED_TOKEN_LOCK = IF @ = u THEN NoUser ELSE @,
                           !.users[u].pc = "started"]
  /\ UNCHANGED <<cleanupVars, reload>>

\* on_start(), line 322: tok = _do_auth(self.client), a token or None
SharedTokenAuth(u) ==
  /\ User(u).pc = "shared_token_auth"
  /\ \E tok \in {u, NoToken} :
       locust' = [locust EXCEPT
         !.requests = Append(@, [user |-> u, held |-> locust.SHARED_TOKEN]),
         !.users[u].tok = tok,
         !.users[u].pc = "shared_token_store"]
  /\ UNCHANGED <<cleanupVars, reload>>

\* on_start(), lines 323-326: a token obtained is assigned to _SHARED_TOKEN,
\* and the lock is left
SharedTokenStore(u) ==
  /\ User(u).pc = "shared_token_store"
  /\ locust' =
       [(IF User(u).tok # NoToken
         THEN [locust EXCEPT !.SHARED_TOKEN = User(u).tok,
                             !.stores = Append(@, u)]
         ELSE locust)
        EXCEPT !.SHARED_TOKEN_LOCK = IF @ = u THEN NoUser ELSE @,
               !.users[u].pc = "started"]
  /\ UNCHANGED <<cleanupVars, reload>>

NextLocust ==
  \E u \in Users :
    \/ ClaimUserIndexAcquire(u)
    \/ ClaimUserIndexRead(u)
    \/ ClaimUserIndexIncrement(u)
    \/ ClaimUserIndexReturn(u)
    \/ OnStartAssign(u)
    \/ OnStartAuth(u)
    \/ PerUserAuth(u)
    \/ SharedTokenAcquire(u)
    \/ SharedTokenCheck(u)
    \/ SharedTokenAuth(u)
    \/ SharedTokenStore(u)

SpecLocust == InitLocust /\ [][NextLocust]_vars

\* The users whose call of _claim_user_index() has returned.
Claimed ==
  {u \in Users : User(u).pc \notin {"on_start", "read", "increment", "return"}}

\* C30: under every interleaving the indices handed out are pairwise distinct
\* and make up 0..n-1 for the n calls that returned, and under round-robin
\* assignment the user with index i has the row i mod len(USER_DATA).
C30_IndicesDistinctAndContiguous ==
  /\ \A u \in Claimed : \A v \in Claimed \ {u} :
       User(u).user_index # User(v).user_index
  /\ {User(u).user_index : u \in Claimed} = 0..(Cardinality(Claimed) - 1)
  /\ \A u \in Users :
       (/\ User(u).pc \in {"auth", "started"}
        /\ locust.DATA_ASSIGNMENT = "round_robin"
        /\ locust.USER_DATA > 0) =>
         User(u).data = User(u).user_index % locust.USER_DATA

\* C30 witness: every user has started, more users than rows, and the users
\* did not claim in the order of their spawning.
C30_Witness ==
  /\ \A u \in Users : User(u).pc = "started"
  /\ locust.DATA_ASSIGNMENT = "round_robin"
  /\ locust.USER_DATA = MaxRows
  /\ User(MaxUsers).user_index = 0

\* A token in _SHARED_TOKEN stays as it is.
SharedTokenKept ==
  locust.SHARED_TOKEN # NoToken => locust'.SHARED_TOKEN = locust.SHARED_TOKEN

\* C31: with the shared token obtained lazily, under every interleaving of the
\* starting users at most one authentication request stores the token, a token
\* once stored is never replaced, and no authentication request is issued
\* with a token stored.
C31_SharedTokenStoredOnce ==
  /\ [](/\ Len(locust.stores) <= 1
        /\ \A n \in DOMAIN locust.requests : locust.requests[n].held = NoToken
        /\ locust.stores # <<>> => locust.SHARED_TOKEN = locust.stores[1])
  /\ [][SharedTokenKept]_vars

\* C31 witness: every user has started; one user's request failed, another
\* user's request after it stored the token, and no further request was
\* issued.
C31_Witness ==
  /\ \A u \in Users : User(u).pc = "started"
  /\ Len(locust.requests) = 2
  /\ locust.requests[1].user # locust.requests[2].user
  /\ locust.stores = <<locust.requests[2].user>>
  /\ locust.SHARED_TOKEN = locust.requests[2].user

====
